---- MODULE Spec2Model ----
(***************************************************************************)
(* Placeholder resolution (DataMapper) and document fill                   *)
(* (DocxTemplateHandler) of the GLR pipeline.                              *)
(*                                                                         *)
(* Python strings are sequences of one-character strings, so that          *)
(* lower(), strip(), the `in` test, split() and the regular expressions    *)
(* are computed on the characters.  Python's None is the value None below. *)
(***************************************************************************)
EXTENDS Integers, Sequences, FiniteSets, TLC

VARIABLES
    extracted_data,         \* DataMapper.extracted_data: the dict, in iteration order
    template_placeholders,  \* DataMapper.template_placeholders
    mapping_used,           \* DataMapper.mapping_used
    replacements,           \* what the last map_data() call returned
    report,                 \* what the last get_mapping_report() call returned
    pc,                     \* "constructed", "mapped" or "raised" (map_data raised)
    document,               \* DocxTemplateHandler.document
    placeholders,           \* DocxTemplateHandler.placeholders
    filled_doc,             \* what the last fill_template() call returned
    replacements_count,     \* fill_template's local counter at its return
    fill_arg,               \* the mapping the last fill_template() call was given
    llm_response,           \* the model's answer in the last generate_placeholder_mapping() call
    llm_mapping,            \* what the last generate_placeholder_mapping() call returned
    awaiting_overrides,     \* st.session_state.awaiting_overrides
    pending_replacements,   \* st.session_state.pending_replacements
    workspace_output,       \* the file Completed_GLR_Report.docx of the workspace
    shown                   \* what the last run of the app's script put on the page

mapper_vars == <<extracted_data, template_placeholders, mapping_used, replacements, report, pc>>
handler_vars == <<document, placeholders, filled_doc, replacements_count, fill_arg>>
app_vars == <<llm_response, llm_mapping, awaiting_overrides, pending_replacements,
              workspace_output, shown>>
vars == <<extracted_data, template_placeholders, mapping_used, replacements, report, pc,
          document, placeholders, filled_doc, replacements_count, fill_arg,
          llm_response, llm_mapping, awaiting_overrides, pending_replacements,
          workspace_output, shown>>

-----------------------------------------------------------------------------
(* Python values and str methods *)

\* Python's None: a one-element sequence no string equals (a string's elements
\* are single characters).
None == <<"None">>

\* The outcome of an operation that raises (KeyError, AttributeError).
Raised == <<"Raised">>

\* A loop or tier that ended without executing `return`.
NoReturn == <<"NoReturn">>

LowerSeq == <<"a","b","c","d","e","f","g","h","i","j","k","l","m",
              "n","o","p","q","r","s","t","u","v","w","x","y","z">>
UpperSeq == <<"A","B","C","D","E","F","G","H","I","J","K","L","M",
              "N","O","P","Q","R","S","T","U","V","W","X","Y","Z">>
LowerLetters == {LowerSeq[i] : i \in 1..26}
UpperLetters == {UpperSeq[i] : i \in 1..26}
Letters == LowerLetters \cup UpperLetters
Digits == {"0","1","2","3","4","5","6","7","8","9"}
Whitespace == {" ", "\t", "\n", "\r", "\f"}

LowerOf == [c \in UpperLetters |-> LowerSeq[CHOOSE i \in 1..26 : UpperSeq[i] = c]]

\* str.lower()
lower(s) == [i \in 1..Len(s) |-> IF s[i] \in UpperLetters THEN LowerOf[s[i]] ELSE s[i]]

\* str.strip()
strip(s) ==
    LET keep == {i \in 1..Len(s) : s[i] \notin Whitespace}
    IN  IF keep = {} THEN <<>>
        ELSE SubSeq(s, CHOOSE i \in keep : \A j \in keep : i <= j,
                       CHOOSE i \in keep : \A j \in keep : j <= i)

\* str.isdigit()
isdigit(s) == Len(s) > 0 /\ \A i \in 1..Len(s) : s[i] \in Digits

\* `needle in s` on strings
Contains(needle, s) ==
    \E i \in 0..(Len(s) - Len(needle)) : SubSeq(s, i + 1, i + Len(needle)) = needle

\* re.search(r"[A-Za-z]", s)
HasLetter(s) == \E i \in 1..Len(s) : s[i] \in Letters

\* re.search(r"\d+", s)
HasDigit(s) == \E i \in 1..Len(s) : s[i] \in Digits

\* str.replace(old, new) for a one-character old
RECURSIVE ReplaceChar(_, _, _)
ReplaceChar(s, old, new) ==
    IF s = <<>> THEN <<>>
    ELSE (IF Head(s) = old THEN new ELSE <<Head(s)>>) \o ReplaceChar(Tail(s), old, new)

\* str.split(sep) for a one-character sep: the pieces, in order
RECURSIVE Split(_, _)
Split(s, sep) ==
    IF \A i \in 1..Len(s) : s[i] # sep THEN <<s>>
    ELSE LET i == CHOOSE k \in 1..Len(s) : s[k] = sep /\ \A j \in 1..(k - 1) : s[j] # sep
         IN  <<SubSeq(s, 1, i - 1)>> \o Split(SubSeq(s, i + 1, Len(s)), sep)

\* sep.join(parts)
RECURSIVE Join(_, _)
Join(sep, parts) ==
    IF parts = <<>> THEN <<>>
    ELSE IF Len(parts) = 1 THEN parts[1]
    ELSE parts[1] \o sep \o Join(sep, Tail(parts))

\* \d{5}(?:-\d{4})? matching the whole of s
ZipShape(s) ==
    \/ Len(s) = 5 /\ isdigit(s)
    \/ /\ Len(s) = 10
       /\ isdigit(SubSeq(s, 1, 5))
       /\ s[6] = "-"
       /\ isdigit(SubSeq(s, 7, 10))

\* re.search(r"^\d{5}(?:-\d{4})?$", s): `$` also matches before a final newline
ZipRegex(s) ==
    \/ ZipShape(s)
    \/ Len(s) > 0 /\ s[Len(s)] = "\n" /\ ZipShape(SubSeq(s, 1, Len(s) - 1))

-----------------------------------------------------------------------------
(* dict: a sequence of [key, value] records with distinct keys, in iteration order *)

\* `k in d`
HasKey(d, k) == \E i \in 1..Len(d) : d[i].key = k

\* d[k]: raises KeyError for a missing key
GetItem(d, k) ==
    IF HasKey(d, k) THEN d[CHOOSE i \in 1..Len(d) : d[i].key = k].value ELSE Raised

\* d.get(k)
DictGet(d, k) ==
    IF HasKey(d, k) THEN d[CHOOSE i \in 1..Len(d) : d[i].key = k].value ELSE None

\* Python truthiness of a str-or-None value
Truthy(x) == x # None /\ x # <<>>

\* str(value) of a str
str(v) == v

-----------------------------------------------------------------------------
(* Placeholder and field names of DataMapper.DEFAULT_MAPPING *)

DATE_LOSS == <<"D", "A", "T", "E", "_", "L", "O", "S", "S">>
INSURED_NAME == <<"I", "N", "S", "U", "R", "E", "D", "_", "N", "A", "M", "E">>
MORTGAGE_CO == <<"M", "O", "R", "T", "G", "A", "G", "E", "_", "C", "O">>
INSURED_H_STREET == <<"I", "N", "S", "U", "R", "E", "D", "_", "H", "_", "S", "T", "R", "E", "E", "T">>
INSURED_H_CITY == <<"I", "N", "S", "U", "R", "E", "D", "_", "H", "_", "C", "I", "T", "Y">>
INSURED_H_STATE == <<"I", "N", "S", "U", "R", "E", "D", "_", "H", "_", "S", "T", "A", "T", "E">>
INSURED_H_ZIP == <<"I", "N", "S", "U", "R", "E", "D", "_", "H", "_", "Z", "I", "P">>
DATE_INSPECTED == <<"D", "A", "T", "E", "_", "I", "N", "S", "P", "E", "C", "T", "E", "D">>
MORTGAGEE == <<"M", "O", "R", "T", "G", "A", "G", "E", "E">>
TOL_CODE == <<"T", "O", "L", "_", "C", "O", "D", "E">>
DATE_RECEIVED == <<"D", "A", "T", "E", "_", "R", "E", "C", "E", "I", "V", "E", "D">>
POLICY_NUMBER == <<"P", "O", "L", "I", "C", "Y", "_", "N", "U", "M", "B", "E", "R">>

date_of_loss == <<"d", "a", "t", "e", "_", "o", "f", "_", "l", "o", "s", "s">>
insured_name == <<"i", "n", "s", "u", "r", "e", "d", "_", "n", "a", "m", "e">>
mortgage_company == <<"m", "o", "r", "t", "g", "a", "g", "e", "_", "c", "o", "m", "p", "a", "n", "y">>
address_street == <<"a", "d", "d", "r", "e", "s", "s", "_", "s", "t", "r", "e", "e", "t">>
address_city == <<"a", "d", "d", "r", "e", "s", "s", "_", "c", "i", "t", "y">>
address_state == <<"a", "d", "d", "r", "e", "s", "s", "_", "s", "t", "a", "t", "e">>
address_zip == <<"a", "d", "d", "r", "e", "s", "s", "_", "z", "i", "p">>
date_inspected == <<"d", "a", "t", "e", "_", "i", "n", "s", "p", "e", "c", "t", "e", "d">>
type_of_loss == <<"t", "y", "p", "e", "_", "o", "f", "_", "l", "o", "s", "s">>
policy_number == <<"p", "o", "l", "i", "c", "y", "_", "n", "u", "m", "b", "e", "r">>

DEFAULT_MAPPING == <<
    [key |-> DATE_LOSS,        value |-> date_of_loss],
    [key |-> INSURED_NAME,     value |-> insured_name],
    [key |-> MORTGAGE_CO,      value |-> mortgage_company],
    [key |-> INSURED_H_STREET, value |-> address_street],
    [key |-> INSURED_H_CITY,   value |-> address_city],
    [key |-> INSURED_H_STATE,  value |-> address_state],
    [key |-> INSURED_H_ZIP,    value |-> address_zip],
    [key |-> DATE_INSPECTED,   value |-> date_inspected],
    [key |-> MORTGAGEE,        value |-> mortgage_company],
    [key |-> TOL_CODE,         value |-> type_of_loss],
    [key |-> DATE_RECEIVED,    value |-> None],
    [key |-> POLICY_NUMBER,    value |-> policy_number] >>

FIELD_BLACKLIST == {<<"i", "n", "s", "u", "r", "e", "d">>,
                    <<"n", "a", "m", "e">>,
                    <<"m", "e", "m", "b", "e", "r">>}

\* ['city', 'street', 'state', 'zip', 'address'] of the blacklist rule
AddressWords == {<<"c", "i", "t", "y">>,
                 <<"s", "t", "r", "e", "e", "t">>,
                 <<"s", "t", "a", "t", "e">>,
                 <<"z", "i", "p">>,
                 <<"a", "d", "d", "r", "e", "s", "s">>}

\* ['street', 'ins', 'insured_h', 'ins_h'] of the address fallback's gate
FallbackWords == {<<"s", "t", "r", "e", "e", "t">>,
                  <<"i", "n", "s">>,
                  <<"i", "n", "s", "u", "r", "e", "d", "_", "h">>,
                  <<"i", "n", "s", "_", "h">>}

\* ['ins_h_street', 'insured_h_street', 'insured_h_street'.lower()]
StreetKeys == {<<"i", "n", "s", "_", "h", "_", "s", "t", "r", "e", "e", "t">>,
               <<"i", "n", "s", "u", "r", "e", "d", "_", "h", "_", "s", "t", "r", "e", "e", "t">>}

\* the alternatives of the street pattern other than \d+
StreetWords == {<<"s", "t", "r", "e", "e", "t">>,
                <<"s", "t", ".">>,
                <<"a", "v", "e">>,
                <<"r", "o", "a", "d">>,
                <<"r", "d", ".">>,
                <<"l", "a", "n", "e">>,
                <<"l", "n", ".">>,
                <<"d", "r", "i", "v", "e">>,
                <<"d", "r", ".">>}

address == <<"a", "d", "d", "r", "e", "s", "s">>
risk_address == <<"r", "i", "s", "k", "_", "a", "d", "d", "r", "e", "s", "s">>
w_zip == <<"z", "i", "p">>
w_city == <<"c", "i", "t", "y">>
w_state == <<"s", "t", "a", "t", "e">>
w_street == <<"s", "t", "r", "e", "e", "t">>
w_st == <<"s", "t">>
w_date == <<"d", "a", "t", "e">>
w_policy == <<"p", "o", "l", "i", "c", "y">>
w_claim == <<"c", "l", "a", "i", "m">>
w_insured == <<"i", "n", "s", "u", "r", "e", "d">>
w_name == <<"n", "a", "m", "e">>
w_zip_code == <<"z", "i", "p", "_", "c", "o", "d", "e">>

-----------------------------------------------------------------------------
(* DataMapper._validate_candidate_for_placeholder *)

DateSeparators == {"-", "/", "\\"}

\* re.search(r"\d{1,4}[-/\\]\d{1,2}[-/\\]\d{1,4}", s)
DateRegex(s) ==
    \E i \in 2..Len(s) : \E n \in 1..2 :
        LET j == i + n + 1
        IN  /\ j + 1 <= Len(s)
            /\ s[i - 1] \in Digits
            /\ s[i] \in DateSeparators
            /\ \A k \in (i + 1)..(j - 1) : s[k] \in Digits
            /\ s[j] \in DateSeparators
            /\ s[j + 1] \in Digits

\* re.search(r"\d{1,2}/\d{1,2}/\d{2,4}", s)
SlashDateRegex(s) ==
    \E i \in 2..Len(s) : \E n \in 1..2 :
        LET j == i + n + 1
        IN  /\ j + 2 <= Len(s)
            /\ s[i - 1] \in Digits
            /\ s[i] = "/"
            /\ \A k \in (i + 1)..(j - 1) : s[k] \in Digits
            /\ s[j] = "/"
            /\ s[j + 1] \in Digits
            /\ s[j + 2] \in Digits

\* re.search(r"\d+|street|st\.|ave|road|rd\.|lane|ln\.|drive|dr\.", s)
StreetRegex(s) == HasDigit(s) \/ \E w \in StreetWords : Contains(w, s)

\* mutant of PlausibleFor: the name rule only refuses digits
PlausibleFor_NameNotDigits(lower_ph, cand) ==
    IF cand = <<>> THEN FALSE
    ELSE IF Contains(w_zip, lower_ph) THEN ZipRegex(cand)
    ELSE IF Contains(w_city, lower_ph) THEN HasLetter(cand) /\ ~isdigit(cand)
    ELSE IF Contains(w_state, lower_ph)
         THEN (Len(cand) = 2 /\ cand[1] \in Letters /\ cand[2] \in Letters)
              \/ HasLetter(cand)
    ELSE IF Contains(w_street, lower_ph) \/ Contains(w_st, lower_ph)
         THEN StreetRegex(lower(cand))
    ELSE IF Contains(w_date, lower_ph) THEN DateRegex(cand) \/ SlashDateRegex(cand)
    ELSE IF Contains(w_policy, lower_ph) \/ Contains(w_claim, lower_ph)
         THEN Len(cand) > 0
    ELSE IF Contains(w_insured, lower_ph) \/ Contains(w_name, lower_ph)
         THEN ~isdigit(cand)
    ELSE ~isdigit(cand)

\* the checks on the stripped candidate, by the lowercased placeholder name
PlausibleFor(lower_ph, cand) ==
    IF cand = <<>> THEN FALSE
    ELSE IF Contains(w_zip, lower_ph) THEN ZipRegex(cand)
    ELSE IF Contains(w_city, lower_ph) THEN HasLetter(cand) /\ ~isdigit(cand)
    ELSE IF Contains(w_state, lower_ph)
         THEN (Len(cand) = 2 /\ cand[1] \in Letters /\ cand[2] \in Letters)
              \/ HasLetter(cand)
    ELSE IF Contains(w_street, lower_ph) \/ Contains(w_st, lower_ph)
         THEN StreetRegex(lower(cand))
    ELSE IF Contains(w_date, lower_ph) THEN DateRegex(cand) \/ SlashDateRegex(cand)
    ELSE IF Contains(w_policy, lower_ph) \/ Contains(w_claim, lower_ph)
         THEN Len(cand) > 0
    ELSE IF Contains(w_insured, lower_ph) \/ Contains(w_name, lower_ph)
         THEN HasLetter(cand) /\ ~isdigit(cand)
    ELSE ~isdigit(cand)

_validate_candidate_for_placeholder(placeholder, candidate) ==
    IF candidate = None THEN FALSE
    ELSE PlausibleFor(lower(placeholder), strip(str(candidate)))

-----------------------------------------------------------------------------
(* DataMapper._find_value_for_placeholder *)

\* norm(s): re.sub(r"[^a-z0-9]", "", s.lower()) if s else ""
norm(s) ==
    IF s = <<>> THEN <<>>
    ELSE SelectSeq(lower(s), LAMBDA c : c \in LowerLetters \cup Digits)

\* the end of the run of class characters that starts at l[i]
RECURSIVE RunEnd(_, _, _)
RunEnd(l, i, class) ==
    IF i < Len(l) /\ l[i + 1] \in class THEN RunEnd(l, i + 1, class) ELSE i

\* set(tokens(s)): re.findall(r"[a-z]+|\d+", s.lower()), the maximal runs of
\* letters and the maximal runs of digits
TokenSet(s) ==
    LET l == lower(s)
        Runs(class) ==
            {SubSeq(l, i, RunEnd(l, i, class)) :
                i \in {k \in 1..Len(l) : l[k] \in class /\ (k = 1 \/ l[k - 1] \notin class)}}
    IN  IF s = <<>> THEN {} ELSE Runs(LowerLetters) \cup Runs(Digits)

\* `return candidate` when the candidate passes validation
ReturnIfValid(placeholder, candidate) ==
    IF candidate = Raised THEN Raised
    ELSE IF _validate_candidate_for_placeholder(placeholder, candidate) THEN candidate
    ELSE NoReturn

\* 1) Direct mapping from DEFAULT_MAPPING
AliasField(placeholder, data, mapped_field) ==
    IF Truthy(mapped_field) /\ HasKey(data, mapped_field)
    THEN ReturnIfValid(placeholder, GetItem(data, mapped_field))
    ELSE NoReturn

\* mutant of AliasTier: the table is looked up by the lowercased placeholder
AliasTier_LowercasedLookup(placeholder, data) ==
    IF HasKey(DEFAULT_MAPPING, lower(placeholder))
    THEN AliasField(placeholder, data, GetItem(DEFAULT_MAPPING, lower(placeholder)))
    ELSE NoReturn

AliasTier(placeholder, data) ==
    IF HasKey(DEFAULT_MAPPING, placeholder)
    THEN AliasField(placeholder, data, GetItem(DEFAULT_MAPPING, placeholder))
    ELSE NoReturn

\* mutant of ExactLoop: the stripped candidate is returned
RECURSIVE ExactLoop_ReturnsStripped(_, _, _, _)
ExactLoop_ReturnsStripped(placeholder, norm_placeholder, data, i) ==
    IF i > Len(data) THEN NoReturn
    ELSE IF data[i].value = None
         THEN ExactLoop_ReturnsStripped(placeholder, norm_placeholder, data, i + 1)
    ELSE IF /\ norm(data[i].key) = norm_placeholder
            /\ _validate_candidate_for_placeholder(placeholder, data[i].value)
         THEN strip(data[i].value)
         ELSE ExactLoop_ReturnsStripped(placeholder, norm_placeholder, data, i + 1)

\* 2) Exact key match: the loop from item i on
RECURSIVE ExactLoop(_, _, _, _)
ExactLoop(placeholder, norm_placeholder, data, i) ==
    IF i > Len(data) THEN NoReturn
    ELSE IF data[i].value = None THEN ExactLoop(placeholder, norm_placeholder, data, i + 1)
    ELSE IF /\ norm(data[i].key) = norm_placeholder
            /\ _validate_candidate_for_placeholder(placeholder, data[i].value)
         THEN data[i].value
         ELSE ExactLoop(placeholder, norm_placeholder, data, i + 1)

ExactTier(placeholder, data) == ExactLoop(placeholder, norm(placeholder), data, 1)

\* nk and (nk in norm_placeholder or norm_placeholder in nk)
SubstringMatch(nk, norm_placeholder) ==
    nk # <<>> /\ (Contains(nk, norm_placeholder) \/ Contains(norm_placeholder, nk))

\* 3) Substring matches both ways: the loop from item i on
RECURSIVE SubstringLoop(_, _, _, _)
SubstringLoop(placeholder, norm_placeholder, data, i) ==
    IF i > Len(data) THEN NoReturn
    ELSE IF data[i].value = None
         THEN SubstringLoop(placeholder, norm_placeholder, data, i + 1)
    ELSE IF /\ SubstringMatch(norm(data[i].key), norm_placeholder)
            /\ _validate_candidate_for_placeholder(placeholder, data[i].value)
         THEN data[i].value
         ELSE SubstringLoop(placeholder, norm_placeholder, data, i + 1)

SubstringTier(placeholder, data) == SubstringLoop(placeholder, norm(placeholder), data, 1)

\* mutant of BetterOf: an equal score replaces the best key too
BetterOrEqual(prev, key, score) ==
    IF score >= prev.best_score /\ score > 0
    THEN [best_key |-> key, best_score |-> score] ELSE prev

\* one iteration of the token-overlap loop on an item with a value
BetterOf(prev, key, score) ==
    IF score > prev.best_score THEN [best_key |-> key, best_score |-> score] ELSE prev

\* 4) Token overlap: best_key and best_score after the first i items of the loop
RECURSIVE TokenOverlapBest(_, _, _)
TokenOverlapBest(ph_tokens, data, i) ==
    IF i = 0 THEN [best_key |-> None, best_score |-> 0]
    ELSE IF data[i].value = None THEN TokenOverlapBest(ph_tokens, data, i - 1)
    ELSE BetterOf(TokenOverlapBest(ph_tokens, data, i - 1), data[i].key,
                  Cardinality(ph_tokens \cap TokenSet(data[i].key)))

\* the blacklist test on the best key
BlacklistRejects(placeholder, best_key) ==
    /\ \E b \in FIELD_BLACKLIST : Contains(b, lower(best_key))
    /\ \E x \in AddressWords : Contains(x, lower(placeholder))

\* 4) Token overlap: what follows the loop.  The rejecting branch only logs;
\* the statements after the if/else validate and return the best key's value
\* whichever branch ran.
AfterOverlapLoop(placeholder, data, best) ==
    IF Truthy(best.best_key) /\ best.best_score > 0
    THEN IF /\ ~BlacklistRejects(placeholder, best.best_key)
            /\ _validate_candidate_for_placeholder(placeholder, GetItem(data, best.best_key))
         THEN GetItem(data, best.best_key)
         ELSE ReturnIfValid(placeholder, GetItem(data, best.best_key))
    ELSE NoReturn

\* mutant of TokenOverlapTier: fields whose value fails validation take no
\* part in the scoring, as in the loops of tiers 2 and 3
TokenOverlapTier_SkipsInvalid(placeholder, data) ==
    AfterOverlapLoop(placeholder, data,
        TokenOverlapBest(TokenSet(placeholder),
            SelectSeq(data, LAMBDA e :
                e.value = None \/ _validate_candidate_for_placeholder(placeholder, e.value)),
            Len(SelectSeq(data, LAMBDA e :
                e.value = None \/ _validate_candidate_for_placeholder(placeholder, e.value)))))

TokenOverlapTier(placeholder, data) ==
    AfterOverlapLoop(placeholder, data,
                     TokenOverlapBest(TokenSet(placeholder), data, Len(data)))

\* the end of the text before a zip of zl characters, less its trailing whitespace
RECURSIVE BeforeZip(_, _)
BeforeZip(last, j) ==
    IF j >= 1 /\ last[j] \in Whitespace THEN BeforeZip(last, j - 1) ELSE j

\* ([A-Za-z]{2})\s*(\d{5}(?:-\d{4})?)$ with a zip of zl characters
StateZipAt(last, zl, j) ==
    IF /\ zl < Len(last)
       /\ ZipShape(SubSeq(last, Len(last) - zl + 1, Len(last)))
       /\ j >= 2
       /\ last[j] \in Letters
       /\ last[j - 1] \in Letters
    THEN [matched |-> TRUE,
          state |-> SubSeq(last, j - 1, j),
          zipc |-> SubSeq(last, Len(last) - zl + 1, Len(last))]
    ELSE [matched |-> FALSE, state |-> None, zipc |-> None]

\* re.search(r"([A-Za-z]{2})\s*(\d{5}(?:-\d{4})?)$", last) on a stripped string:
\* whether it matched, and the groups
StateZipRegex(last) ==
    IF StateZipAt(last, 5, BeforeZip(last, Len(last) - 5)).matched
    THEN StateZipAt(last, 5, BeforeZip(last, Len(last) - 5))
    ELSE StateZipAt(last, 10, BeforeZip(last, Len(last) - 10))

\* full_addr of the fallback
FullAddr(data) ==
    IF HasKey(data, address) /\ DictGet(data, address) # None
    THEN DictGet(data, address)
    ELSE IF Truthy(DictGet(data, risk_address))
         THEN DictGet(data, risk_address)
         ELSE DictGet(data, address)

\* [p.strip() for p in pieces if p.strip()]
StripAll(pieces) ==
    SelectSeq([i \in 1..Len(pieces) |-> strip(pieces[i])], LAMBDA p : p # <<>>)

\* parts = [p.strip() for p in addr.split(',') if p.strip()]
AddressParts(full_addr) == StripAll(Split(ReplaceChar(full_addr, "\n", <<",", " ">>), ","))

\* mutant of CityStateZip: the city's slice runs to the end of the parts
CityStateZip_CityToEnd(parts, m) ==
    IF m.matched
    THEN [city |-> IF Len(parts) > 2
                   THEN Join(<<",", " ">>, SubSeq(parts, 2, Len(parts)))
                   ELSE None,
          state |-> m.state,
          zipc |-> m.zipc]
    ELSE [city |-> parts[Len(parts)], state |-> None, zipc |-> None]

\* city, state and zipc when there are two parts or more
CityStateZip(parts, m) ==
    IF m.matched
    THEN [city |-> IF Len(parts) > 2
                   THEN Join(<<",", " ">>, SubSeq(parts, 2, Len(parts) - 1))
                   ELSE None,
          state |-> m.state,
          zipc |-> m.zipc]
    ELSE [city |-> parts[Len(parts)], state |-> None, zipc |-> None]

\* street, city, state and zipc parsed from the parts
ParseAddress(parts) ==
    [street |-> IF parts # <<>> THEN parts[1] ELSE None] @@
    (IF Len(parts) >= 2
     THEN CityStateZip(parts, StateZipRegex(parts[Len(parts)]))
     ELSE [city |-> None, state |-> None, zipc |-> None])

\* the part the placeholder asks for
RequestedPart(lower_ph, parsed) ==
    IF \E k \in StreetKeys : Contains(k, lower_ph) THEN parsed.street
    ELSE IF Contains(w_city, lower_ph) THEN parsed.city
    ELSE IF Contains(w_state, lower_ph) THEN parsed.state
    ELSE IF Contains(w_zip, lower_ph) \/ Contains(w_zip_code, lower_ph) THEN parsed.zipc
    ELSE NoReturn

\* the body of the fallback's if: full_addr.replace raises AttributeError on None
ParsedPart(lower_ph, full_addr) ==
    IF full_addr = None THEN Raised
    ELSE RequestedPart(lower_ph, ParseAddress(AddressParts(full_addr)))

\* mutant of FallbackFor: the `full_addr and` test is missing
FallbackFor_Unguarded(lower_ph, full_addr) ==
    IF \E x \in FallbackWords : Contains(x, lower_ph)
    THEN ParsedPart(lower_ph, full_addr)
    ELSE NoReturn

\* 5) Address parsing fallback
FallbackFor(lower_ph, full_addr) ==
    IF Truthy(full_addr) /\ \E x \in FallbackWords : Contains(x, lower_ph)
    THEN ParsedPart(lower_ph, full_addr)
    ELSE NoReturn

AddressFallback(placeholder, data) == FallbackFor(lower(placeholder), FullAddr(data))

\* the tier's return value, or what the code after the tier does
OrElse(returned, rest) == IF returned # NoReturn THEN returned ELSE rest

\* mutant of _find_value_for_placeholder: the substring loop runs before the
\* exact-match loop
find_value_substring_first(placeholder, data) ==
    OrElse(AliasTier(placeholder, data),
    OrElse(SubstringTier(placeholder, data),
    OrElse(ExactTier(placeholder, data),
    OrElse(TokenOverlapTier(placeholder, data),
    OrElse(AddressFallback(placeholder, data),
           None)))))

_find_value_for_placeholder(placeholder, data) ==
    OrElse(AliasTier(placeholder, data),
    OrElse(ExactTier(placeholder, data),
    OrElse(SubstringTier(placeholder, data),
    OrElse(TokenOverlapTier(placeholder, data),
    OrElse(AddressFallback(placeholder, data),
           None)))))

-----------------------------------------------------------------------------
(* DataMapper.map_data and DataMapper.get_mapping_report *)

\* the `value` of each iteration of map_data's loop
FoundValues(data, phs) == [p \in phs |-> _find_value_for_placeholder(p, data)]

\* mutant of map_data: a placeholder without a value is left out of the result
map_data_partial(found) ==
    [p \in {q \in DOMAIN found : found[q] # None} |-> str(found[p])]

\* replacements[placeholder] = str(value) if value is not None else "",
\* for the values found of the loop
map_data(found) ==
    [p \in DOMAIN found |-> IF found[p] # None THEN str(found[p]) ELSE <<>>]

\* mutant of UpdateMappingUsed: a placeholder without a value is recorded too
UpdateMappingUsed_All(used, found, done) ==
    [p \in (DOMAIN used) \cup done |-> IF p \in done THEN found[p] ELSE used[p]]

\* self.mapping_used[placeholder] = value, for the placeholders in done whose
\* value is not None
UpdateMappingUsed(used, found, done) ==
    LET hit == {p \in done : found[p] # None}
    IN  [p \in (DOMAIN used) \cup hit |-> IF p \in hit THEN found[p] ELSE used[p]]

\* mutant of get_mapping_report: the unmapped list is the whole placeholder set
get_mapping_report_all_unmapped(phs, used) ==
    [total_placeholders |-> Cardinality(phs),
     mapped_count |-> Cardinality(DOMAIN used),
     unmapped |-> phs,
     mapping_used |-> used]

\* DataMapper.get_mapping_report: the dictionary returned; its mapping_used
\* is the mapper's own dictionary, not a copy
get_mapping_report(phs, used) ==
    [total_placeholders |-> Cardinality(phs),
     mapped_count |-> Cardinality(DOMAIN used),
     unmapped |-> phs \ DOMAIN used,
     mapping_used |-> used]

\* a report returned earlier, after the mapper's dictionary has become used
Aliased(returned, used) ==
    IF returned = <<>> THEN returned
    ELSE <<[returned[1] EXCEPT !.mapping_used = used]>>

EmptyDict == [p \in {} |-> <<>>]

\* what the report holds for each resolved placeholder: the items of
\* mapping_used, placeholder and value
ReportEntries(used) == {[placeholder |-> p, value |-> used[p]] : p \in DOMAIN used}

-----------------------------------------------------------------------------
(* Bounds and inputs of the mapper *)

\* the most fields of a field dictionary
MaxFields == 3

\* the most placeholders of a template
MaxPlaceholders == 3

PH_STREET == <<"S", "T", "R", "E", "E", "T">>
PH_CITY == <<"C", "I", "T", "Y">>
PH_STATE == <<"S", "T", "A", "T", "E">>
PH_ZIP == <<"Z", "I", "P">>
INSURED_CITY_STATE_ZIP == <<"I", "N", "S", "U", "R", "E", "D", "_", "C", "I", "T", "Y", "_", "S", "T", "A", "T", "E", "_", "Z", "I", "P">>

date_loss == <<"d", "a", "t", "e", "_", "l", "o", "s", "s">>
loss == <<"l", "o", "s", "s">>
loss_date == <<"l", "o", "s", "s", "_", "d", "a", "t", "e">>
zip == <<"z", "i", "p">>

v_date == <<"0", "3", "/", "1", "4", "/", "2", "0", "2", "3">>
v_date2 == <<"1", "/", "2", "/", "2", "3">>
v_date3 == <<"4", "-", "5", "-", "2", "1">>
v_date4 == <<"5", "/", "6", "/", "2", "4">>
v_policy == <<"P", "O", "L", "-", "9", "9", "8", "1">>
v_hail == <<"H", "a", "i", "l">>
v_john == <<"J", "o", "h", "n", " ", "S", "m", "i", "t", "h">>
v_risk == <<"1", "2", "3", " ", "M", "a", "i", "n", " ", "S", "t", ",", " ", "S", "p", "r", "i", "n", "g", "f", "i", "e", "l", "d", ",", " ", "I", "L", " ", "6", "2", "7", "0", "4">>
v_pobox == <<"P", "O", " ", "B", "o", "x", ",", " ", "6", "0", "6", "0", "1">>
v_abcde == <<"A", "B", "C", "D", "E">>
v_zip_sp == <<" ", "6", "2", "7", "0", "4">>

\* the dictionaries of at most MaxFields of these fields, keys distinct, in every order
DictsOfLen(pool, max) ==
    UNION {{d \in [1..n -> pool] : \A i, j \in 1..n : i # j => d[i].key # d[j].key}
           : n \in 0..max}

DictsOf(pool) == DictsOfLen(pool, MaxFields)

\* the sets of at most MaxPlaceholders of these placeholders
SetsOf(pool) == {S \in SUBSET pool : Cardinality(S) <= MaxPlaceholders}

\* a loss report: dates, policy and type of loss
LossPlaceholders == {DATE_LOSS, POLICY_NUMBER, TOL_CODE, DATE_RECEIVED}

LossFields ==
    {[key |-> date_of_loss,  value |-> v_date],
     [key |-> date_of_loss,  value |-> None],
     [key |-> policy_number, value |-> v_policy],
     [key |-> type_of_loss,  value |-> v_hail],
     [key |-> date_loss,     value |-> v_date2],
     [key |-> loss,          value |-> v_date3]}

\* the date of loss under names that match in every tier
TierPlaceholders == {DATE_LOSS, DATE_RECEIVED}

TierFields ==
    {[key |-> date_of_loss, value |-> v_date],
     [key |-> date_of_loss, value |-> None],
     [key |-> date_loss,    value |-> v_date2],
     [key |-> loss,         value |-> v_date3],
     [key |-> loss_date,    value |-> v_date4],
     [key |-> type_of_loss, value |-> v_hail]}

\* the insured's address
AddressPlaceholders ==
    {INSURED_H_CITY, PH_STREET, PH_CITY, PH_STATE, PH_ZIP, INSURED_CITY_STATE_ZIP}

AddressFields ==
    {[key |-> insured_name, value |-> v_john],
     [key |-> risk_address, value |-> v_risk],
     [key |-> address,      value |-> v_pobox],
     [key |-> address,      value |-> None],
     [key |-> address_zip,  value |-> v_abcde],
     [key |-> zip,          value |-> v_zip_sp]}

EmptyDocument == [body |-> <<>>, tables |-> <<>>]

-----------------------------------------------------------------------------
(* The mapper *)

\* DataMapper.__init__
InitMapper(fields, phs) ==
    /\ extracted_data \in DictsOf(fields)
    /\ template_placeholders \in SetsOf(phs)
    /\ mapping_used = EmptyDict
    /\ replacements = <<>>
    /\ report = <<>>
    /\ pc = "constructed"

\* initialize_session_state() of an app nobody has used: no model was asked,
\* no override is awaited, no file was written and the page is empty
IdleApp ==
    /\ llm_response = <<>>
    /\ llm_mapping = <<>>
    /\ awaiting_overrides = FALSE
    /\ pending_replacements = <<>>
    /\ workspace_output = <<>>
    /\ shown = {}

\* a handler of an empty template, which no action of the mapper touches
IdleHandler ==
    /\ document = EmptyDocument
    /\ placeholders = {}
    /\ filled_doc = <<>>
    /\ replacements_count = 0
    /\ fill_arg = <<>>

\* the effect of map_data's loop with these values found: an exception leaves
\* the loop with the placeholders iterated before it recorded, and returns nothing
MapDataLoop(found, raising) ==
    IF raising = {}
    THEN /\ mapping_used' = UpdateMappingUsed(mapping_used, found, DOMAIN found)
         /\ replacements' = <<map_data(found)>>
         /\ pc' = "mapped"
    ELSE /\ \E done \in SUBSET ((DOMAIN found) \ raising) :
               mapping_used' = UpdateMappingUsed(mapping_used, found, done)
         /\ replacements' = replacements
         /\ pc' = "raised"

\* the placeholders whose resolution raises
Raising(found) == {p \in DOMAIN found : found[p] = Raised}

MapDataFound(found) == MapDataLoop(found, Raising(found))

\* DataMapper.map_data()
MapData ==
    /\ MapDataFound(FoundValues(extracted_data, template_placeholders))
    /\ report' = Aliased(report, mapping_used')
    /\ UNCHANGED <<extracted_data, template_placeholders>>
    /\ UNCHANGED handler_vars
    /\ UNCHANGED app_vars

\* DataMapper.get_mapping_report()
GetMappingReport ==
    /\ report' = <<get_mapping_report(template_placeholders, mapping_used)>>
    /\ UNCHANGED <<extracted_data, template_placeholders, mapping_used, replacements, pc>>
    /\ UNCHANGED handler_vars
    /\ UNCHANGED app_vars

Next == MapData \/ GetMappingReport

\* a mapper of a loss report
Init == InitMapper(LossFields, LossPlaceholders) /\ IdleHandler /\ IdleApp

Spec == Init /\ [][Next]_vars

\* a mapper of the dates of a loss report
InitTiers == InitMapper(TierFields, TierPlaceholders) /\ IdleHandler /\ IdleApp

SpecTiers == InitTiers /\ [][Next]_vars

\* a mapper of the insured's address
InitAddress == InitMapper(AddressFields, AddressPlaceholders) /\ IdleHandler /\ IdleApp

SpecAddress == InitAddress /\ [][Next]_vars

\* full addresses in the shapes the fallback parses: street, city and state
\* with zip in segments of their own; a newline before a last segment that
\* holds the city too; state and zip+4 written together after two middle
\* segments; a street alone; a street and a last segment without a state
v_troy == <<"9", " ", "E", "l", "m", "\n", "T", "r", "o", "y", " ", "N", "Y", " ", "1", "2", "1", "8", "0">>
v_plus4 == <<"9", " ", "E", "l", "m", ",", " ", "A", ",", " ", "B", ",", " ", "N", "Y", "1", "2", "1", "8", "0", "-", "1", "2", "3", "4">>
v_elm == <<"9", " ", "E", "l", "m">>

ParsePlaceholders == {INSURED_H_STREET, INSURED_H_CITY, INSURED_H_STATE, INSURED_H_ZIP}

ParseFields ==
    {[key |-> risk_address, value |-> v_risk],
     [key |-> risk_address, value |-> v_troy],
     [key |-> risk_address, value |-> v_plus4],
     [key |-> risk_address, value |-> v_elm],
     [key |-> address,      value |-> v_pobox],
     [key |-> address,      value |-> None]}

\* a mapper of the parts of a full address
InitParse == InitMapper(ParseFields, ParsePlaceholders) /\ IdleHandler /\ IdleApp

SpecParse == InitParse /\ [][Next]_vars

\* a placeholder whose name holds "date" and, in "estimate", "st"
ESTIMATE_DATE == <<"E", "S", "T", "I", "M", "A", "T", "E", "_", "D", "A", "T", "E">>
estimate_date == <<"e", "s", "t", "i", "m", "a", "t", "e", "_", "d", "a", "t", "e">>
v_12_oak == <<"1", "2", " ", "O", "a", "k">>
v_oak_st == <<"O", "a", "k", " ", "S", "t">>
v_62704 == <<"6", "2", "7", "0", "4">>

\* placeholders of each kind the validator tells apart by name
ValidatePlaceholders ==
    {DATE_LOSS, ESTIMATE_DATE, INSURED_NAME, INSURED_H_ZIP, INSURED_H_STREET,
     INSURED_H_CITY}

\* candidates: a date, a name, a street with a number, a street with a
\* suffix, a zip
ValidateFields ==
    {[key |-> date_of_loss,   value |-> v_date2],
     [key |-> estimate_date,  value |-> v_12_oak],
     [key |-> insured_name,   value |-> v_john],
     [key |-> address_street, value |-> v_12_oak],
     [key |-> address_street, value |-> v_oak_st],
     [key |-> address_zip,    value |-> v_62704]}

\* a mapper whose fields hold candidates of every kind
InitValidate == InitMapper(ValidateFields, ValidatePlaceholders) /\ IdleHandler /\ IdleApp

SpecValidate == InitValidate /\ [][Next]_vars

date == <<"d", "a", "t", "e">>

\* fields that match the date placeholders by substring or by token overlap
\* only, some with a value that is no date
OverlapFields ==
    {[key |-> loss,         value |-> v_hail],
     [key |-> loss,         value |-> v_date3],
     [key |-> date,         value |-> v_date2],
     [key |-> loss_date,    value |-> v_hail],
     [key |-> type_of_loss, value |-> v_date4],
     [key |-> date_of_loss, value |-> v_date]}

\* a mapper of dates whose best-matching fields may hold no date
InitOverlap == InitMapper(OverlapFields, TierPlaceholders) /\ IdleHandler /\ IdleApp

SpecOverlap == InitOverlap /\ [][Next]_vars

-----------------------------------------------------------------------------
(* The template handler (template_handler.py) *)

(* A run is [text, size, bold]; size and bold are sequences of at most one
   element, <<>> being python-docx's None. A paragraph is the sequence of its
   runs, a cell a sequence of paragraphs, a row a sequence of cells, a table a
   sequence of rows, and a document its body paragraphs and its tables. *)

\* paragraph.text: the texts of the runs, concatenated
RECURSIVE ParagraphText(_)
ParagraphText(paragraph) ==
    IF paragraph = <<>> THEN <<>>
    ELSE Head(paragraph).text \o ParagraphText(Tail(paragraph))

\* the concatenation of a sequence of sequences
RECURSIVE Flatten(_)
Flatten(seqs) ==
    IF seqs = <<>> THEN <<>> ELSE Head(seqs) \o Flatten(Tail(seqs))

\* for table in tables: for row in table.rows: for cell in row.cells:
\* for paragraph in cell.paragraphs, in the order of the loops
CellParagraphs(doc) == Flatten(Flatten(Flatten(doc.tables)))

\* mutant of PlaceholderChars: lowercase letters too
PlaceholderCharsAnyCase == Letters \cup {"_"} \cup Digits

\* [A-Z_0-9]
PlaceholderChars == UpperLetters \cup {"_"} \cup Digits

\* PLACEHOLDER_PATTERN.findall(text) from position i: the names of the
\* leftmost non-overlapping matches of \[([A-Z_0-9]+)\]
RECURSIVE FindAllFrom(_, _)
FindAllFrom(text, i) ==
    IF i > Len(text) THEN {}
    ELSE LET j == RunEnd(text, i + 1, PlaceholderChars)
         IN  IF /\ text[i] = "["
                /\ i + 1 <= Len(text)
                /\ text[i + 1] \in PlaceholderChars
                /\ j + 1 <= Len(text)
                /\ text[j + 1] = "]"
             THEN {SubSeq(text, i + 1, j)} \cup FindAllFrom(text, j + 2)
             ELSE FindAllFrom(text, i + 1)

findall(text) == FindAllFrom(text, 1)

\* DocxTemplateHandler._extract_all_placeholders
_extract_all_placeholders(doc) ==
    UNION {findall(ParagraphText(doc.body[i])) : i \in DOMAIN doc.body}
    \cup UNION {findall(ParagraphText(CellParagraphs(doc)[i])) :
                   i \in DOMAIN CellParagraphs(doc)}

\* mutant of Replace: only the first occurrence is replaced
ReplaceFirst(s, old, new) ==
    IF \E i \in 0..(Len(s) - Len(old)) : SubSeq(s, i + 1, i + Len(old)) = old
    THEN LET i == CHOOSE k \in 0..(Len(s) - Len(old)) :
                      /\ SubSeq(s, k + 1, k + Len(old)) = old
                      /\ \A j \in 0..(k - 1) : SubSeq(s, j + 1, j + Len(old)) # old
         IN  SubSeq(s, 1, i) \o new \o SubSeq(s, i + Len(old) + 1, Len(s))
    ELSE s

\* str.replace(old, new), old not empty: every non-overlapping occurrence,
\* leftmost first
RECURSIVE Replace(_, _, _)
Replace(s, old, new) ==
    IF Len(s) < Len(old) THEN s
    ELSE IF SubSeq(s, 1, Len(old)) = old
         THEN new \o Replace(SubSeq(s, Len(old) + 1, Len(s)), old, new)
         ELSE <<Head(s)>> \o Replace(Tail(s), old, new)

\* f"[{placeholder}]"
PlaceholderText(placeholder) == <<"[">> \o placeholder \o <<"]">>

\* value or ""
OrEmpty(value) == IF Truthy(value) THEN value ELSE <<>>

\* paragraph.add_run(new_text), then the size and the bold flag of the first
\* run when the paragraph has more than one run and they are truthy
AddRun(runs, new_text) ==
    LET copies == Len(runs) + 1 > 1
    IN  Append(runs,
            [text |-> new_text,
             size |-> IF copies /\ runs[1].size # <<>> /\ runs[1].size # <<0>>
                      THEN runs[1].size ELSE <<>>,
             bold |-> IF copies /\ runs[1].bold = <<TRUE>>
                      THEN runs[1].bold ELSE <<>>])

\* the body of the loop of replace_text_in_paragraph when the token is in the
\* paragraph's text: the runs are emptied and one run with the new text is added
Rebuild(paragraph, full_text, placeholder_text, value) ==
    AddRun([r \in DOMAIN paragraph |-> [paragraph[r] EXCEPT !.text = <<>>]],
           Replace(full_text, placeholder_text, str(OrEmpty(value))))

\* mutant of ReplaceIn: the paragraph is rebuilt whether it holds the token or not
ReplaceInAlways(paragraph, full_text, placeholder_text, value) ==
    [paragraph |-> Rebuild(paragraph, full_text, placeholder_text, value),
     changed |-> TRUE]

\* if placeholder_text in paragraph.text
ReplaceIn(paragraph, full_text, placeholder_text, value) ==
    IF Contains(placeholder_text, full_text)
    THEN [paragraph |-> Rebuild(paragraph, full_text, placeholder_text, value),
          changed |-> TRUE]
    ELSE [paragraph |-> paragraph, changed |-> FALSE]

\* the body of the loop for one item of the mapping
ReplaceItem(paragraph, placeholder, value) ==
    ReplaceIn(paragraph, ParagraphText(paragraph), PlaceholderText(placeholder), value)

\* mutant of Changed: changed is what the last item of the mapping did
ChangedByLast(changed, this) ==
    [paragraph |-> this.paragraph, changed |-> this.changed]

\* changed = True, once set, stays
Changed(changed, this) ==
    [paragraph |-> this.paragraph, changed |-> changed \/ this.changed]

ReplaceNext(before, item) ==
    Changed(before.changed, ReplaceItem(before.paragraph, item.key, item.value))

\* for placeholder, value in replacements.items(), up to item i
RECURSIVE ReplaceLoop(_, _, _)
ReplaceLoop(paragraph, items, i) ==
    IF i = 0 THEN [paragraph |-> paragraph, changed |-> FALSE]
    ELSE ReplaceNext(ReplaceLoop(paragraph, items, i - 1), items[i])

\* DocxTemplateHandler.replace_text_in_paragraph: the paragraph afterwards
\* and the value returned
replace_text_in_paragraph(paragraph, items) ==
    ReplaceLoop(paragraph, items, Len(items))

\* the paragraphs after the loop over them
FillParagraphs(paragraphs, items) ==
    [i \in DOMAIN paragraphs |-> replace_text_in_paragraph(paragraphs[i], items).paragraph]

\* the number of paragraphs for which replace_text_in_paragraph returned True
ChangedCount(paragraphs, items) ==
    Cardinality({i \in DOMAIN paragraphs :
                    replace_text_in_paragraph(paragraphs[i], items).changed})

\* the two loops of fill_template over the paragraphs of a document
FillDocument(doc, items) ==
    [doc |->
        [body |-> FillParagraphs(doc.body, items),
         tables |->
            [t \in DOMAIN doc.tables |->
                [r \in DOMAIN doc.tables[t] |->
                    [c \in DOMAIN doc.tables[t][r] |->
                        FillParagraphs(doc.tables[t][r][c], items)]]]],
     count |-> ChangedCount(doc.body, items) + ChangedCount(CellParagraphs(doc), items)]

(* Objects: fill_template works on references. The heap of a call holds the
   handler's document under "self_document" and the copy under "copy". *)

\* mutant of deepcopy: filled_doc = self.document, the same object
deepcopy_alias(heap, ref) == [ref |-> ref, heap |-> heap]

\* deepcopy(self.document): a new object, equal to the original
deepcopy(heap, ref) ==
    [ref |-> "copy", heap |-> [heap EXCEPT !["copy"] = heap[ref]]]

\* the objects after the loops have worked on the object filled_doc refers to
Objects(copied, filled) ==
    [self_document |-> [copied.heap EXCEPT ![copied.ref] = filled.doc]["self_document"],
     filled_doc |-> filled.doc,
     replacements_count |-> filled.count]

FillObject(copied, items) ==
    Objects(copied, FillDocument(copied.heap[copied.ref], items))

\* DocxTemplateHandler.fill_template: the handler's document afterwards, the
\* document returned and the count logged
fill_template(self_document, items) ==
    FillObject(deepcopy([r \in {"self_document", "copy"} |-> self_document],
                        "self_document"),
               items)

-----------------------------------------------------------------------------
(* Templates and mappings of the handler's specification *)

MaxBody == 2
MaxItems == 2

NAME_A == <<"A">>
NAME_B == <<"B", "_", "1">>
t_a == <<"[", "A", "]">>
t_open == <<"[">>
t_rest == <<"A", "]", " ", "x", " ", "[", "B", "_", "1", "]">>
t_plain == <<"p", "l", "a", "i", "n", " ", "[", "a", "]">>
t_twice == <<"[", "A", "]", "[", "A", "]", " ", "[", "B", "_", "1">>
f_v == <<"v">>
f_token == <<"[", "B", "_", "1", "]">>

Run(text, size, bold) == [text |-> text, size |-> size, bold |-> bold]

\* a token in one bold 12pt run; a token split over two runs, followed by a
\* second token; a paragraph without a token; a token twice and an unclosed
\* one, in a run with an explicit bold=False
ParagraphPool ==
    {<<Run(t_a, <<12>>, <<TRUE>>)>>,
     <<Run(t_open, <<>>, <<>>), Run(t_rest, <<12>>, <<TRUE>>)>>,
     <<Run(t_plain, <<>>, <<>>)>>,
     <<Run(t_twice, <<>>, <<FALSE>>)>>}

\* no table, or one table of one row of two cells
TablesPool ==
    {<<>>,
     << << << <<<<Run(t_a, <<>>, <<>>)>>>>,
              <<<<Run(t_plain, <<>>, <<>>)>>, <<Run(t_twice, <<12>>, <<>>)>>>> >> >> >>}

BodiesOf(n) == UNION {[1..k -> ParagraphPool] : k \in 0..n}

Documents == {[body |-> b, tables |-> tb] : b \in BodiesOf(MaxBody), tb \in TablesPool}

\* the dictionaries of at most MaxItems items passed to fill_template
ItemPool == {[key |-> k, value |-> v] : k \in {NAME_A, NAME_B}, v \in {<<>>, f_v, f_token}}

Mappings == DictsOfLen(ItemPool, MaxItems)

\* DocxTemplateHandler.__init__, with a mapper nobody has called
InitFill ==
    /\ document \in Documents
    /\ placeholders = _extract_all_placeholders(document)
    /\ filled_doc = <<>>
    /\ replacements_count = 0
    /\ fill_arg = <<>>
    /\ extracted_data = <<>>
    /\ template_placeholders = {}
    /\ mapping_used = EmptyDict
    /\ replacements = <<>>
    /\ report = <<>>
    /\ pc = "constructed"
    /\ IdleApp

\* the assignments of a call that was passed items and had this result
Filled(items, result) ==
    /\ document' = result.self_document
    /\ filled_doc' = <<result.filled_doc>>
    /\ replacements_count' = result.replacements_count
    /\ fill_arg' = <<items>>
    /\ UNCHANGED placeholders
    /\ UNCHANGED mapper_vars
    /\ UNCHANGED app_vars

\* filled_doc = handler.fill_template(replacements)
FillTemplate ==
    \E items \in Mappings : Filled(items, fill_template(document, items))

NextFill == FillTemplate

SpecFill == InitFill /\ [][NextFill]_vars

-----------------------------------------------------------------------------
(* GeminiLLMHandler.generate_placeholder_mapping (llm_handler.py) *)

(* A JSON value is [t, v]: t is "str", "num", "null", "obj" or "arr", and v
   the characters of a string or a number, the members [key, value] of an
   object in the order of the text, or the elements of an array. The parser
   covers the JSON of the answers modelled: objects and arrays of strings
   without escapes, null and unsigned integers. *)

JsonWs == {" ", "\t", "\n", "\r"}

JsonNull == [t |-> "null", v |-> <<>>]

\* json.loads raised json.JSONDecodeError
JSONDecodeError == [t |-> "JSONDecodeError", v |-> <<>>]

\* no value starts at the position
NoParse == [ok |-> FALSE, val |-> JSONDecodeError, next |-> 0]

Parsed(val, next) == [ok |-> TRUE, val |-> val, next |-> next]

\* the first position from i on that holds no whitespace
RECURSIVE SkipWs(_, _)
SkipWs(s, i) == IF i <= Len(s) /\ s[i] \in JsonWs THEN SkipWs(s, i + 1) ELSE i

\* the position of the first double quote from i on, 0 without one
RECURSIVE QuoteFrom(_, _)
QuoteFrom(s, i) ==
    IF i > Len(s) THEN 0 ELSE IF s[i] = "\"" THEN i ELSE QuoteFrom(s, i + 1)

\* a string: the characters between two double quotes, none of them a
\* control character
ParseString(s, i, close) ==
    IF /\ i <= Len(s)
       /\ s[i] = "\""
       /\ close > 0
       /\ \A k \in (i + 1)..(close - 1) : s[k] \notin {"\n", "\t", "\r", "\f", "\\"}
    THEN Parsed([t |-> "str", v |-> SubSeq(s, i + 1, close - 1)], close + 1)
    ELSE NoParse

\* an unsigned integer: 0, or digits that do not start with 0
ParseNumber(s, i) ==
    IF s[i] = "0" THEN Parsed([t |-> "num", v |-> <<"0">>], i + 1)
    ELSE Parsed([t |-> "num", v |-> SubSeq(s, i, RunEnd(s, i, Digits))],
                RunEnd(s, i, Digits) + 1)

\* a string, a number or null
ParseScalar(s, i) ==
    IF i > Len(s) THEN NoParse
    ELSE IF s[i] = "\"" THEN ParseString(s, i, QuoteFrom(s, i + 1))
    ELSE IF s[i] \in Digits THEN ParseNumber(s, i)
    ELSE IF i + 3 <= Len(s) /\ SubSeq(s, i, i + 3) = <<"n", "u", "l", "l">>
         THEN Parsed(JsonNull, i + 4)
    ELSE NoParse

\* the members of an object from the key at i on, after the members acc
RECURSIVE ParseMembers(_, _, _)
ParseMembers(s, i, acc) ==
    LET k == ParseString(s, i, QuoteFrom(s, i + 1))
        colon == SkipWs(s, k.next)
        v == ParseScalar(s, SkipWs(s, colon + 1))
        e == SkipWs(s, v.next)
        members == Append(acc, [key |-> k.val.v, value |-> v.val])
    IN  IF ~k.ok \/ colon > Len(s) \/ s[colon] # ":" THEN NoParse
        ELSE IF ~v.ok \/ e > Len(s) THEN NoParse
        ELSE IF s[e] = "}" THEN Parsed([t |-> "obj", v |-> members], e + 1)
        ELSE IF s[e] = "," THEN ParseMembers(s, SkipWs(s, e + 1), members)
        ELSE NoParse

\* the elements of an array from the element at i on, after the elements acc
RECURSIVE ParseElements(_, _, _)
ParseElements(s, i, acc) ==
    LET v == ParseScalar(s, i)
        e == SkipWs(s, v.next)
    IN  IF ~v.ok \/ e > Len(s) THEN NoParse
        ELSE IF s[e] = "]" THEN Parsed([t |-> "arr", v |-> Append(acc, v.val)], e + 1)
        ELSE IF s[e] = "," THEN ParseElements(s, SkipWs(s, e + 1), Append(acc, v.val))
        ELSE NoParse

\* an object or an array whose first member or element would be at i
ParseComposite(s, i, open) ==
    IF i > Len(s) THEN NoParse
    ELSE IF open = "{"
         THEN IF s[i] = "}" THEN Parsed([t |-> "obj", v |-> <<>>], i + 1)
              ELSE ParseMembers(s, i, <<>>)
         ELSE IF s[i] = "]" THEN Parsed([t |-> "arr", v |-> <<>>], i + 1)
              ELSE ParseElements(s, i, <<>>)

ParseValue(s, i) ==
    IF i > Len(s) THEN NoParse
    ELSE IF s[i] \in {"{", "["} THEN ParseComposite(s, SkipWs(s, i + 1), s[i])
    ELSE ParseScalar(s, i)

\* a parse that leaves nothing but whitespace
WholeText(s, r) == IF r.ok /\ SkipWs(s, r.next) > Len(s) THEN r.val ELSE JSONDecodeError

\* json.loads(s)
json_loads(s) == WholeText(s, ParseValue(s, SkipWs(s, 1)))

\* mapping.get(p) on the members of an object: the last member of that key
JsonGet(members, p) ==
    IF \E i \in 1..Len(members) : members[i].key = p
    THEN members[CHOOSE i \in 1..Len(members) :
                    /\ members[i].key = p
                    /\ \A j \in (i + 1)..Len(members) : members[j].key # p].value
    ELSE JsonNull

\* str(v) of a string or an integer
StrOf(val) == val.v

\* not v: None, the empty string and the number 0
Falsy(val) ==
    \/ val.t = "null"
    \/ val.t = "str" /\ val.v = <<>>
    \/ val.t = "num" /\ val.v = <<"0">>

\* s.startswith(prefix)
startswith(s, prefix) == Len(s) >= Len(prefix) /\ SubSeq(s, 1, Len(prefix)) = prefix

\* the grave accent; a string of TLA+ cannot hold the character itself
Grave == "grave"

Fence == <<Grave, Grave, Grave>>
FenceJson == Fence \o <<"j", "s", "o", "n">>

\* .replace(FenceJson, "").replace(Fence, "")
WithoutFences(text) == Replace(Replace(text, FenceJson, <<>>), Fence, <<>>)

\* "Remove fences"
Unfenced(text) ==
    IF startswith(text, FenceJson) THEN strip(WithoutFences(text))
    ELSE IF startswith(text, Fence) THEN strip(Replace(text, Fence, <<>>))
    ELSE text

\* text[start:end+1].strip() for the first { and the last }
Slice(t, opens, closes) ==
    IF opens = {} \/ closes = {} THEN None
    ELSE IF (CHOOSE j \in closes : \A k \in closes : k <= j)
            < (CHOOSE i \in opens : \A k \in opens : i <= k)
         THEN None
    ELSE strip(SubSeq(t, CHOOSE i \in opens : \A k \in opens : i <= k,
                         CHOOSE j \in closes : \A k \in closes : k <= j))

\* GeminiLLMHandler._extract_json_from_text
_extract_json_from_text(text) ==
    IF text = <<>> THEN None
    ELSE Slice(WithoutFences(text),
               {i \in 1..Len(WithoutFences(text)) : WithoutFences(text)[i] = "{"},
               {i \in 1..Len(WithoutFences(text)) : WithoutFences(text)[i] = "}"})

\* {p: "" for p in placeholders}
AllEmpty(phs) == [p \in phs |-> <<>>]

\* mutant of Coerced: str(v) also of None
Coerced_StrOfNone(members, phs) ==
    [p \in phs |-> IF JsonGet(members, p).t = "null" THEN <<"N", "o", "n", "e">>
                   ELSE StrOf(JsonGet(members, p))]

\* result[p] = "" if mapping.get(p) is None else str(mapping.get(p))
Coerced(members, phs) ==
    [p \in phs |-> IF JsonGet(members, p).t = "null" THEN <<>>
                   ELSE StrOf(JsonGet(members, p))]

\* {p: str(mapping.get(p) or "") for p in placeholders}
OrEmptyStr(members, phs) ==
    [p \in phs |-> IF Falsy(JsonGet(members, p)) THEN <<>> ELSE StrOf(JsonGet(members, p))]

\* the last resort: single quotes read as double quotes; a value that is no
\* object has no get(), and every exception gives the empty mapping
AfterCoercion(mapping, phs) ==
    IF mapping.t = "obj" THEN OrEmptyStr(mapping.v, phs) ELSE AllEmpty(phs)

\* the JSON substring: a failure of any kind goes on to the last resort
AfterCandidate(text, candidate, phs) ==
    IF Truthy(candidate) /\ json_loads(candidate).t = "obj"
    THEN OrEmptyStr(json_loads(candidate).v, phs)
    ELSE AfterCoercion(json_loads(ReplaceChar(text, "'", <<"\"">>)), phs)

\* the try of "Try parse": only json.JSONDecodeError is caught here; the
\* AttributeError of a value that is no object reaches the outer except,
\* unless there is no placeholder to look up
AfterParse(text, mapping, phs) ==
    IF mapping.t = "JSONDecodeError"
    THEN AfterCandidate(text, _extract_json_from_text(text), phs)
    ELSE IF mapping.t = "obj" THEN Coerced(mapping.v, phs)
    ELSE AllEmpty(phs)

MappingFromText(text, phs) == AfterParse(text, json_loads(text), phs)

\* GeminiLLMHandler.generate_placeholder_mapping for the answer of the
\* model: its text, or Raised when the call fails
generate_placeholder_mapping(phs, response) ==
    IF response = Raised THEN AllEmpty(phs)
    ELSE MappingFromText(Unfenced(strip(response)), phs)

-----------------------------------------------------------------------------
(* Answers of the model, templates and data of the app's specification *)

\* an object with a null; an object without B_1; an object inside a
\* sentence, with a 0; an array; plain text; single quotes; a fenced object
\* with a number; an object with every value
r_object == <<"{", "\"", "A", "\"", ":", "\"", "v", "\"", ",", "\"", "B", "_", "1", "\"", ":", "n", "u", "l", "l", "}">>
r_partial == <<"{", "\"", "A", "\"", ":", " ", "\"", "v", "\"", "}">>
r_embedded == <<"S", "u", "r", "e", ":", " ", "{", "\"", "A", "\"", ":", "\"", "v", "\"", ",", "\"", "B", "_", "1", "\"", ":", "0", "}">>
r_array == <<"[", "1", "]">>
r_text == <<"o", "o", "p", "s">>
r_quotes == <<"{", "'", "A", "'", ":", "'", "v", "'", ",", "'", "B", "_", "1", "'", ":", "'", "w", "'", "}">>
r_fenced == FenceJson \o <<"\n", "{", "\"", "B", "_", "1", "\"", ":", "7", "}", "\n">> \o Fence
r_full == <<"{", "\"", "A", "\"", ":", "\"", "x", "\"", ",", "\"", "B", "_", "1", "\"", ":", "\"", "w", "\"", "}">>

\* the answers of the model; Raised is a call that fails
Responses ==
    {r_object, r_partial, r_embedded, r_array, r_text, r_quotes, r_fenced, r_full, Raised}

\* what the user types into an input of the override form
OverrideTexts == {<<>>, f_v}

field_a == <<"a">>
field_b_1 == <<"b", "_", "1">>
f_w == <<"w">>

\* a template of one placeholder and a template of two
AppDocuments ==
    {[body |-> <<<<Run(t_a, <<12>>, <<TRUE>>)>>>>, tables |-> <<>>],
     [body |-> <<<<Run(t_open, <<>>, <<>>), Run(t_rest, <<12>>, <<TRUE>>)>>>>, tables |-> <<>>]}

\* the extracted data: nothing, the field of A, the fields of A and B_1
AppData ==
    {<<>>,
     <<[key |-> field_a, value |-> f_v]>>,
     <<[key |-> field_a, value |-> f_v], [key |-> field_b_1, value |-> f_w]>>}

-----------------------------------------------------------------------------
(* The Generate step of the app (app.py) *)

\* the characters of placeholder names, by code point
CodePoints == <<"0", "1", "2", "3", "4", "5", "6", "7", "8", "9">> \o UpperSeq \o <<"_">>

\* a < b on strings of these characters
RECURSIVE Less(_, _)
Less(a, b) ==
    IF b = <<>> THEN FALSE
    ELSE IF a = <<>> THEN TRUE
    ELSE IF Head(a) = Head(b) THEN Less(Tail(a), Tail(b))
    ELSE (CHOOSE i \in 1..Len(CodePoints) : CodePoints[i] = Head(a))
         < (CHOOSE i \in 1..Len(CodePoints) : CodePoints[i] = Head(b))

\* sorted(list(names))
RECURSIVE sorted(_)
sorted(names) ==
    IF names = {} THEN <<>>
    ELSE <<CHOOSE x \in names : \A y \in names \ {x} : Less(x, y)>>
         \o sorted(names \ {CHOOSE x \in names : \A y \in names \ {x} : Less(x, y)})

\* the final mapping: the model's value, the mapper's where the model gave none
FinalReplacements(llm, local) ==
    [p \in DOMAIN local |-> IF llm[p] = <<>> THEN local[p] ELSE llm[p]]

\* the items of a mapping built in the order of the list
ItemsOf(mapping, order) ==
    [i \in 1..Len(order) |-> [key |-> order[i], value |-> mapping[order[i]]]]

\* the override form is rendered
FormShown(awaiting, pending) ==
    IF awaiting /\ pending # <<>> /\ DOMAIN pending[1] # {} THEN {"form"} ELSE {}

\* mapper = DataMapper(extracted_data, placeholders); replacements =
\* mapper.map_data(); the report saved after the try block
Mapped(found) ==
    /\ template_placeholders' = placeholders
    /\ mapping_used' = UpdateMappingUsed(EmptyDict, found, DOMAIN found)
    /\ replacements' = <<map_data(found)>>
    /\ report' = <<get_mapping_report(placeholders, mapping_used')>>
    /\ pc' = "mapped"
    /\ UNCHANGED <<extracted_data, placeholders>>

\* fill_and_save(mapping, tmp), the copy of the temporary file to the
\* workspace, the success message and the download button
FilledAndCopied(items, result) ==
    /\ document' = result.self_document
    /\ filled_doc' = <<result.filled_doc>>
    /\ replacements_count' = result.replacements_count
    /\ fill_arg' = <<items>>
    /\ workspace_output' = << <<result.filled_doc>> >>

\* no placeholder without a value: the template is filled
Finalized(items) ==
    /\ FilledAndCopied(items, fill_template(document, items))
    /\ UNCHANGED <<awaiting_overrides, pending_replacements>>
    /\ shown' = {"success", "download"} \cup FormShown(awaiting_overrides, pending_replacements)

\* placeholders without a value: the overrides are awaited and nothing is
\* filled; the code after the try block copies the temporary file, still
\* empty, to the workspace, reports success and offers the download
Deferred(final) ==
    /\ pending_replacements' = <<final>>
    /\ awaiting_overrides' = TRUE
    /\ UNCHANGED <<document, filled_doc, replacements_count, fill_arg>>
    /\ workspace_output' = << <<>> >>
    /\ shown' = {"info", "success", "download"} \cup FormShown(TRUE, <<final>>)

\* the if on empty_placeholders
Decided(final) ==
    IF \E p \in DOMAIN final : final[p] = <<>>
    THEN Deferred(final)
    ELSE Finalized(ItemsOf(final, sorted(DOMAIN final)))

\* the model's mapping, merged with the mapper's replacements
Asked(response, llm, local) ==
    /\ llm_response' = <<response>>
    /\ llm_mapping' = <<llm>>
    /\ Decided(FinalReplacements(llm, local))

\* the orders in which a dictionary built from a set can hold its keys
Orders(names) ==
    {order \in [1..Cardinality(names) -> names] :
        \A i, j \in 1..Cardinality(names) : i # j => order[i] # order[j]}

\* the try block raises before a mapping is returned (the constructor of
\* the handler, or json.dumps of the data): the except branch fills the
\* template with the mapper's replacements
Unasked(local) ==
    /\ llm_response' = <<>>
    /\ llm_mapping' = <<>>
    /\ \E order \in Orders(DOMAIN local) : Finalized(ItemsOf(local, order))

\* the script's run when "Generate Filled Document" is pressed
Generate ==
    /\ Raising(FoundValues(extracted_data, placeholders)) = {}
    /\ Mapped(FoundValues(extracted_data, placeholders))
    /\ \/ \E response \in Responses :
             Asked(response, generate_placeholder_mapping(placeholders, response),
                   map_data(FoundValues(extracted_data, placeholders)))
       \/ Unasked(map_data(FoundValues(extracted_data, placeholders)))

\* the script's run when the override form is submitted: every input
\* replaces the pending value of its placeholder, the template is filled with
\* the result and the override state is cleared
Submitted(items) ==
    /\ FilledAndCopied(items, fill_template(document, items))
    /\ shown' = {"form", "success", "download"}
    /\ awaiting_overrides' = FALSE
    /\ pending_replacements' = <<>>
    /\ UNCHANGED placeholders
    /\ UNCHANGED mapper_vars
    /\ UNCHANGED <<llm_response, llm_mapping>>

\* the inputs of the form: each holds the pending value of its placeholder
\* until the user types another text
InputsFor(pending) ==
    {override_inputs \in
        [DOMAIN pending -> OverrideTexts \cup {pending[p] : p \in DOMAIN pending}] :
        \A p \in DOMAIN pending : override_inputs[p] \in OverrideTexts \cup {pending[p]}}

SubmitOverrides ==
    /\ FormShown(awaiting_overrides, pending_replacements) # {}
    /\ \E override_inputs \in InputsFor(pending_replacements[1]) :
           Submitted(ItemsOf(override_inputs, sorted(DOMAIN override_inputs)))

\* a run of the script with no button pressed
Rerun ==
    /\ shown' = FormShown(awaiting_overrides, pending_replacements)
    /\ UNCHANGED <<llm_response, llm_mapping, awaiting_overrides, pending_replacements,
                   workspace_output>>
    /\ UNCHANGED mapper_vars
    /\ UNCHANGED handler_vars

NextApp == Generate \/ SubmitOverrides \/ Rerun

\* the session after a template was uploaded and the data extracted
InitApp ==
    /\ document \in AppDocuments
    /\ placeholders = _extract_all_placeholders(document)
    /\ filled_doc = <<>>
    /\ replacements_count = 0
    /\ fill_arg = <<>>
    /\ extracted_data \in AppData
    /\ template_placeholders = {}
    /\ mapping_used = EmptyDict
    /\ replacements = <<>>
    /\ report = <<>>
    /\ pc = "constructed"
    /\ IdleApp

SpecApp == InitApp /\ [][NextApp]_vars

-----------------------------------------------------------------------------
(* Properties of the mapper *)

\* the mapping the last map_data() call returned
Returned == replacements[1]

\* the value the resolver returned for p in map_data: None when map_data
\* recorded nothing for p
Found(p) == IF p \in DOMAIN mapping_used THEN mapping_used[p] ELSE None

\* the first index of a set of indices
FirstOf(S) == CHOOSE i \in S : \A j \in S : i <= j

v_street == <<"1", "2", "3", " ", "M", "a", "i", "n", " ", "S", "t">>
v_city == <<"S", "p", "r", "i", "n", "g", "f", "i", "e", "l", "d">>
v_state == <<"I", "L">>
v_zip == <<"6", "2", "7", "0", "4">>

\* C1: after map_data the returned mapping has exactly the template's
\* placeholders as its keys, and every placeholder the resolver finds no
\* value for is in it with the empty string.
C1_Totality ==
    pc = "mapped" =>
        /\ DOMAIN Returned = template_placeholders
        /\ \A p \in template_placeholders :
              _find_value_for_placeholder(p, extracted_data) = None => Returned[p] = <<>>

\* map_data has returned a mapping of two or more placeholders, one resolved
\* and one not
C1_Witness ==
    /\ pc = "mapped"
    /\ Cardinality(template_placeholders) >= 2
    /\ \E p \in template_placeholders :
          _find_value_for_placeholder(p, extracted_data) = None /\ Returned[p] = <<>>
    /\ \E p \in template_placeholders : Returned[p] # <<>>

\* C2: when resolution reaches the token-overlap tier, the best-scoring field
\* is an identity field (insured, name, member) and the placeholder is
\* address-flavoured, the resolver does not return that field's value; with
\* {insured_name: "John Smith"}, INSURED_H_CITY stays unresolved.
C2_BlacklistRejection ==
    pc = "mapped" =>
        /\ \A p \in template_placeholders :
              (/\ AliasTier(p, extracted_data) = NoReturn
               /\ ExactTier(p, extracted_data) = NoReturn
               /\ SubstringTier(p, extracted_data) = NoReturn
               /\ TokenOverlapBest(TokenSet(p), extracted_data, Len(extracted_data)).best_score > 0
               /\ BlacklistRejects(p,
                      TokenOverlapBest(TokenSet(p), extracted_data, Len(extracted_data)).best_key))
              => Found(p) # GetItem(extracted_data,
                      TokenOverlapBest(TokenSet(p), extracted_data, Len(extracted_data)).best_key)
        /\ (/\ extracted_data = <<[key |-> insured_name, value |-> v_john]>>
            /\ INSURED_H_CITY \in template_placeholders)
           => Found(INSURED_H_CITY) = None /\ Returned[INSURED_H_CITY] = <<>>

\* C3: with {risk_address: "123 Main St, Springfield, IL 62704"} the
\* placeholders STREET, CITY, STATE and ZIP resolve to "123 Main St",
\* "Springfield", "IL" and "62704".
C3_AddressDecomposition ==
    (pc = "mapped" /\ extracted_data = <<[key |-> risk_address, value |-> v_risk]>>) =>
        /\ PH_STREET \in template_placeholders => Found(PH_STREET) = v_street
        /\ PH_CITY \in template_placeholders => Found(PH_CITY) = v_city
        /\ PH_STATE \in template_placeholders => Found(PH_STATE) = v_state
        /\ PH_ZIP \in template_placeholders => Found(PH_ZIP) = v_zip

\* C4: every non-null value the resolver returns, from whichever tier, passes
\* the validation of its placeholder.
C4_ReturnedValuesPlausible ==
    pc = "mapped" =>
        \A p \in DOMAIN mapping_used :
            _validate_candidate_for_placeholder(p, mapping_used[p])

\* the number of tokens a field's name shares with the placeholder; a field
\* with a null value does not take part
OverlapScore(ph_tokens, d, i) ==
    IF d[i].value = None THEN 0
    ELSE Cardinality(ph_tokens \cap TokenSet(d[i].key))

\* the fields of score best, when best is positive
ScoringFields(ph_tokens, d, best) ==
    {i \in 1..Len(d) : best > 0 /\ OverlapScore(ph_tokens, d, i) = best}

\* the largest of a set of numbers
MaxOf(S) == CHOOSE m \in S : \A x \in S : x <= m

\* the fields of the largest positive token overlap with the placeholder
TopFields(ph_tokens, d) ==
    ScoringFields(ph_tokens, d,
        MaxOf({OverlapScore(ph_tokens, d, i) : i \in 1..Len(d)} \cup {0}))

\* the value of the first of these fields, None when there is none
ValueOfFirst(d, hits) == IF hits = {} THEN None ELSE d[FirstOf(hits)].value

\* the candidates of tiers 1 to 4 among the fields whose value is non-null and
\* passes validation: 1 the alias field; 2 the first field whose normalized
\* name equals the placeholder's; 3 the first field whose normalized name
\* contains it or is contained in it; 4 the first of the top-scoring fields
CandidatesAmong(d, valid, aliases, norm_placeholder, top) ==
    <<ValueOfFirst(d, {i \in valid : d[i].key \in aliases}),
      ValueOfFirst(d, {i \in valid : norm(d[i].key) = norm_placeholder}),
      ValueOfFirst(d, {i \in valid :
                          /\ norm(d[i].key) # <<>>
                          /\ \/ Contains(norm(d[i].key), norm_placeholder)
                             \/ Contains(norm_placeholder, norm(d[i].key))}),
      ValueOfFirst(d, {i \in valid : top # {} /\ i = FirstOf(top)})>>

\* the candidates of tiers 1 to 4 for placeholder p and dictionary d, None
\* for a tier that has none
TierCandidates(p, d) ==
    CandidatesAmong(d,
        {i \in 1..Len(d) : d[i].value # None
                           /\ _validate_candidate_for_placeholder(p, d[i].value)},
        {DEFAULT_MAPPING[e].value :
            e \in {x \in 1..Len(DEFAULT_MAPPING) : DEFAULT_MAPPING[x].key = p}},
        norm(p),
        TopFields(TokenSet(p), d))

\* result is the candidate of the lowest tier that has one
LowestTierWins(candidates, result) ==
    \A k \in 1..4 :
        (candidates[k] # None /\ \A j \in 1..(k - 1) : candidates[j] = None)
        => result = candidates[k]

\* C5: the value the resolver returns is the candidate of the lowest-numbered
\* tier (1 alias, 2 exact, 3 substring, 4 token overlap) that has a non-null
\* candidate passing validation; a tier without one falls through to the next.
C5_TierPrecedence ==
    pc = "mapped" =>
        \A p \in template_placeholders :
            LowestTierWins(TierCandidates(p, extracted_data), Found(p))

\* DATE_LOSS with a null alias field, a substring match first in the
\* dictionary and an exact match after it: the exact match is returned
C5_Witness ==
    /\ pc = "mapped"
    /\ DATE_LOSS \in template_placeholders
    /\ extracted_data = <<[key |-> loss, value |-> v_date3],
                          [key |-> date_of_loss, value |-> None],
                          [key |-> date_loss, value |-> v_date2]>>
    /\ TierCandidates(DATE_LOSS, extracted_data) = <<None, v_date2, v_date3, v_date2>>
    /\ Found(DATE_LOSS) = v_date2

\* C6: DATE_RECEIVED, which the alias table maps to no field, stays blank:
\* the resolver returns null for it and the mapping holds the empty string.
C6_NoFieldStaysBlank ==
    (pc = "mapped" /\ DATE_RECEIVED \in template_placeholders) =>
        Found(DATE_RECEIVED) = None /\ Returned[DATE_RECEIVED] = <<>>

\* C7: for a placeholder whose name contains "zip" the resolver never returns
\* a value that fails ^\d{5}(-\d{4})?$.
C7_ZipGating ==
    pc = "mapped" =>
        \A p \in DOMAIN mapping_used :
            Contains(w_zip, lower(p)) => ZipRegex(mapping_used[p])

\* C8: a placeholder of the alias table whose alias field is present with a
\* value passing validation resolves to exactly that value, whatever the
\* other fields.
C8_AliasTierWins ==
    pc = "mapped" =>
        \A p \in template_placeholders : \A e \in 1..Len(DEFAULT_MAPPING) :
            (/\ DEFAULT_MAPPING[e].key = p
             /\ DEFAULT_MAPPING[e].value # None
             /\ HasKey(extracted_data, DEFAULT_MAPPING[e].value)
             /\ _validate_candidate_for_placeholder(
                    p, DictGet(extracted_data, DEFAULT_MAPPING[e].value)))
            => /\ Found(p) = DictGet(extracted_data, DEFAULT_MAPPING[e].value)
               /\ Returned[p] = DictGet(extracted_data, DEFAULT_MAPPING[e].value)

\* the end-to-end scenario: the three alias fields map the three placeholders
C8_Witness ==
    /\ pc = "mapped"
    /\ template_placeholders = {DATE_LOSS, POLICY_NUMBER, TOL_CODE}
    /\ extracted_data = <<[key |-> date_of_loss, value |-> v_date],
                          [key |-> policy_number, value |-> v_policy],
                          [key |-> type_of_loss, value |-> v_hail]>>
    /\ Returned[DATE_LOSS] = v_date
    /\ Returned[POLICY_NUMBER] = v_policy
    /\ Returned[TOL_CODE] = v_hail

\* C9: map_data never raises; a placeholder without a value is in the
\* returned mapping with the empty string and in the unmapped list of a
\* report taken afterwards.
C9_NeverRaises ==
    /\ pc # "raised"
    /\ pc = "mapped" =>
          \A p \in template_placeholders :
              Found(p) = None =>
                  /\ Returned[p] = <<>>
                  /\ report # <<>> => p \in report[1].unmapped

\* map_data has returned for a dictionary with a null value, the address
\* fallback has parsed a full address, a placeholder is left without a value
\* and the report lists it
C9_Witness ==
    /\ pc = "mapped"
    /\ report # <<>>
    /\ \E i \in 1..Len(extracted_data) : extracted_data[i].value = None
    /\ INSURED_H_CITY \in template_placeholders
    /\ Found(INSURED_H_CITY) = v_city
    /\ \E p \in template_placeholders :
          Found(p) = None /\ Returned[p] = <<>> /\ p \in report[1].unmapped

\* C10: fill_template works on a copy: no call, whatever the mapping and
\* however many calls came before, changes the handler's document (the runs
\* and texts of its paragraphs, in body and tables) or its placeholder set.
C10_FillLeavesTemplate ==
    [][document' = document /\ placeholders' = placeholders]_vars

\* a fill has changed paragraphs of the copy, in the body and in a
\* table, and the handler's document still holds the tokens
C10_Witness ==
    /\ filled_doc # <<>>
    /\ replacements_count >= 2
    /\ filled_doc[1].body # document.body
    /\ filled_doc[1].tables # document.tables
    /\ placeholders = {NAME_A, NAME_B}
    /\ _extract_all_placeholders(document) = placeholders
    /\ _extract_all_placeholders(filled_doc[1]) = {}

-----------------------------------------------------------------------------
(* Properties of the template handler *)

\* the document fill_template returned and the mapping it was passed
FilledDoc == filled_doc[1]
FillItems == fill_arg[1]

\* the pieces of text between the occurrences of token, leftmost first
RECURSIVE PiecesBetween(_, _)
PiecesBetween(text, token) ==
    IF ~Contains(token, text) THEN <<text>>
    ELSE LET i == CHOOSE k \in 1..(Len(text) - Len(token) + 1) :
                      /\ SubSeq(text, k, k + Len(token) - 1) = token
                      /\ \A j \in 1..(k - 1) : SubSeq(text, j, j + Len(token) - 1) # token
         IN  <<SubSeq(text, 1, i - 1)>>
             \o PiecesBetween(SubSeq(text, i + Len(token), Len(text)), token)

\* text with every occurrence of token replaced by value
AllReplaced(text, token, value) == Join(value, PiecesBetween(text, token))

\* text after the items up to item i, in the order of the mapping, have each
\* had all occurrences of their token replaced by their value
RECURSIVE Substituted(_, _, _)
Substituted(text, items, i) ==
    IF i = 0 THEN text
    ELSE AllReplaced(Substituted(text, items, i - 1),
                     PlaceholderText(items[i].key), items[i].value)

\* every paragraph of after has the text of the paragraph of before at its
\* place, substituted
TextsSubstituted(before, after, items) ==
    /\ Len(after) = Len(before)
    /\ \A i \in 1..Len(before) :
          ParagraphText(after[i]) = Substituted(ParagraphText(before[i]), items, Len(items))

\* C11: every paragraph of the filled copy, in the body and in the table
\* cells, has the text of the template's paragraph with all occurrences of
\* the token of each item of the mapping replaced by the item's value, the
\* empty string included, also when the token spans several runs.
C11_FillSubstitutesAll ==
    filled_doc # <<>> =>
        /\ TextsSubstituted(document.body, FilledDoc.body, FillItems)
        /\ TextsSubstituted(CellParagraphs(document), CellParagraphs(FilledDoc), FillItems)

\* a fill with the empty string for A and "v" for B_1 of a body paragraph
\* whose token [A] spans two runs and of a cell paragraph that holds [A] twice
C11_Witness ==
    /\ filled_doc # <<>>
    /\ FillItems = <<[key |-> NAME_A, value |-> <<>>], [key |-> NAME_B, value |-> f_v]>>
    /\ \E i \in 1..Len(document.body) :
          /\ Len(document.body[i]) = 2
          /\ document.body[i][1].text = t_open
          /\ ParagraphText(FilledDoc.body[i]) = <<" ", "x", " ", "v">>
    /\ \E i \in 1..Len(CellParagraphs(document)) :
          /\ ParagraphText(CellParagraphs(document)[i]) = t_twice
          /\ ParagraphText(CellParagraphs(FilledDoc)[i]) = <<" ", "[", "B", "_", "1">>

\* C12: fill introduces no placeholder: every name extraction finds in the
\* filled document is a name extraction finds in the template.
C12_FillIntroducesNoPlaceholder ==
    filled_doc # <<>> =>
        _extract_all_placeholders(FilledDoc) \subseteq _extract_all_placeholders(document)

\* the text holds the token of an item of the mapping
HoldsToken(text, items) ==
    \E k \in 1..Len(items) : Contains(PlaceholderText(items[k].key), text)

\* every paragraph of after whose paragraph of before held a token is one
\* run with the substituted text
SingleRuns(before, after, items) ==
    \A i \in 1..Len(before) :
        HoldsToken(ParagraphText(before[i]), items)
        => /\ Len(after[i]) = 1
           /\ after[i][1].text = Substituted(ParagraphText(before[i]), items, Len(items))

\* C13: after fill, every paragraph that held a token of the mapping consists
\* of a single run whose text is the substituted text of the paragraph.
C13_SingleRun ==
    filled_doc # <<>> =>
        /\ SingleRuns(document.body, FilledDoc.body, FillItems)
        /\ SingleRuns(CellParagraphs(document), CellParagraphs(FilledDoc), FillItems)

\* in every paragraph of after whose paragraph of before held a token, the
\* last run, which carries the text, has the size and the bold flag of the
\* first run of before
FormattingKept(before, after, items) ==
    \A i \in 1..Len(before) :
        HoldsToken(ParagraphText(before[i]), items)
        => /\ after[i][Len(after[i])].size = before[i][1].size
           /\ after[i][Len(after[i])].bold = before[i][1].bold

\* C14: in every paragraph fill modified, the run that carries the
\* substituted text has the font size and the bold flag of the paragraph's
\* first run of before the fill, also after several substitutions.
C14_FormattingPreserved ==
    filled_doc # <<>> =>
        /\ FormattingKept(document.body, FilledDoc.body, FillItems)
        /\ FormattingKept(CellParagraphs(document), CellParagraphs(FilledDoc), FillItems)

\* the number of these paragraphs whose text holds a token of the mapping
HoldingToken(paragraphs, items) ==
    Cardinality({i \in 1..Len(paragraphs) : HoldsToken(ParagraphText(paragraphs[i]), items)})

\* C15: the count fill computes is the number of paragraphs, of the body and
\* of the table cells, whose text held at least one token of the mapping: a
\* paragraph with several tokens or occurrences counts once, one with none
\* does not count.
C15_CountsParagraphs ==
    filled_doc # <<>> =>
        replacements_count = HoldingToken(document.body, FillItems)
                             + HoldingToken(CellParagraphs(document), FillItems)

\* a fill with both names of a body with a paragraph that holds both tokens
\* and a paragraph that holds none, and of a cell paragraph that holds [A]
\* twice: three paragraphs are counted
C15_Witness ==
    /\ filled_doc # <<>>
    /\ Len(FillItems) = 2
    /\ Len(document.body) = 2
    /\ ParagraphText(document.body[1]) = t_open \o t_rest
    /\ ParagraphText(document.body[2]) = t_plain
    /\ document.tables # <<>>
    /\ replacements_count = 3

\* every paragraph of before that holds no token is the same paragraph in after
OthersKept(before, after, items) ==
    \A i \in 1..Len(before) :
        ~HoldsToken(ParagraphText(before[i]), items) => after[i] = before[i]

\* C16: an item of the mapping whose token is in no paragraph has no effect:
\* every paragraph that holds no token of the mapping keeps its runs, with
\* their texts and formatting, in the filled copy, and when no paragraph
\* holds one the copy equals the template and nothing is counted.
C16_AbsentTokenNoOp ==
    filled_doc # <<>> =>
        /\ OthersKept(document.body, FilledDoc.body, FillItems)
        /\ OthersKept(CellParagraphs(document), CellParagraphs(FilledDoc), FillItems)
        /\ (HoldingToken(document.body, FillItems)
            + HoldingToken(CellParagraphs(document), FillItems) = 0)
           => FilledDoc = document /\ replacements_count = 0

\* a fill with B_1 of a template that holds [A] and no [B_1]: the copy equals
\* the template
C16_Witness ==
    /\ filled_doc # <<>>
    /\ FillItems = <<[key |-> NAME_B, value |-> f_v]>>
    /\ placeholders = {NAME_A}
    /\ document.tables # <<>>
    /\ document.body # <<>>
    /\ FilledDoc = document
    /\ replacements_count = 0

\* the names N of one or more characters of A-Z, _ and 0-9 such that [N]
\* occurs in text
NamesIn(text) ==
    {SubSeq(text, i + 1, j - 1) :
        <<i, j>> \in {ij \in (1..Len(text)) \X (1..Len(text)) :
                        /\ ij[1] + 1 < ij[2]
                        /\ text[ij[1]] = "["
                        /\ text[ij[2]] = "]"
                        /\ \A k \in (ij[1] + 1)..(ij[2] - 1) :
                              text[k] \in UpperLetters \cup Digits \cup {"_"}}}

\* the names whose token occurs in a paragraph of the body or of a table cell
NamesOf(doc) ==
    UNION {NamesIn(ParagraphText(doc.body[i])) : i \in 1..Len(doc.body)}
    \cup UNION {NamesIn(ParagraphText(CellParagraphs(doc)[i])) :
                   i \in 1..Len(CellParagraphs(doc))}

\* C17: extraction returns exactly the names N of one or more characters of
\* A-Z, underscore and 0-9 whose token [N] occurs in the text of a body
\* paragraph or of a table-cell paragraph, each once and without brackets;
\* bracketed text with other characters is not a placeholder.
C17_ExtractionExact ==
    /\ placeholders = NamesOf(document)
    /\ filled_doc # <<>> => _extract_all_placeholders(FilledDoc) = NamesOf(FilledDoc)

\* a handler of a template with [A] in the body and in a cell, twice in one
\* paragraph, [B_1] behind a token that spans two runs, the unclosed [B_1 and
\* the lowercase [a]
C17_Witness ==
    /\ placeholders = {NAME_A, NAME_B}
    /\ Len(document.body) = 2
    /\ ParagraphText(document.body[1]) = t_open \o t_rest
    /\ ParagraphText(document.body[2]) = t_plain
    /\ document.tables # <<>>
    /\ filled_doc = <<>>

-----------------------------------------------------------------------------
(* Properties of the report *)

\* r counts the placeholders, and its resolved placeholders and its unmapped
\* list are disjoint and together the placeholder set
ReportConsistent(r) ==
    /\ r.total_placeholders = Cardinality(template_placeholders)
    /\ r.mapped_count = Cardinality(DOMAIN r.mapping_used)
    /\ DOMAIN r.mapping_used \cap r.unmapped = {}
    /\ DOMAIN r.mapping_used \cup r.unmapped = template_placeholders
    /\ r.mapped_count + Cardinality(r.unmapped) = r.total_placeholders

\* C18: in every state of a mapper, before map_data and after any number of
\* calls, the report get_mapping_report returns is consistent
\* (mapped_count + length(unmapped) = total_placeholders, resolved and
\* unmapped disjoint and together the placeholder set), and a
\* get_mapping_report step changes nothing of the mapper.
C18_ReportConsistency ==
    /\ [](ReportConsistent(get_mapping_report(template_placeholders, mapping_used)))
    /\ [][GetMappingReport =>
            /\ report' = <<get_mapping_report(template_placeholders, mapping_used)>>
            /\ UNCHANGED <<extracted_data, template_placeholders, mapping_used,
                           replacements, pc>>]_vars

\* a report taken after map_data, of resolved and of unresolved placeholders
C18_Witness ==
    /\ pc = "mapped"
    /\ report # <<>>
    /\ report[1] = get_mapping_report(template_placeholders, mapping_used)
    /\ report[1].mapped_count >= 1
    /\ report[1].unmapped # {}
    /\ report[1].total_placeholders = 3

\* C19: for every resolved placeholder the record kept for the report holds,
\* besides the value, the name of the field that supplied it, a field of the
\* dictionary with that value.
C19_SourceFieldRecorded ==
    \A e \in ReportEntries(mapping_used) :
        /\ "source_field" \in DOMAIN e
        /\ HasKey(extracted_data, e.source_field)
        /\ GetItem(extracted_data, e.source_field) = e.value

-----------------------------------------------------------------------------
(* Properties of the token-overlap tier *)

\* best is the first of the fields of the largest positive score, and no
\* field when every score is zero
IsFirstOfTop(best, ph_tokens, d, top) ==
    IF top = {}
    THEN best.best_key = None /\ best.best_score = 0
    ELSE /\ best.best_key = d[FirstOf(top)].key
         /\ best.best_score = OverlapScore(ph_tokens, d, FirstOf(top))
         /\ best.best_score > 0
         /\ \A i \in 1..Len(d) :
               /\ OverlapScore(ph_tokens, d, i) <= best.best_score
               /\ OverlapScore(ph_tokens, d, i) = best.best_score => FirstOf(top) <= i

\* C20: among the fields with a non-null value the token-overlap tier selects
\* the field whose name shares the most tokens with the placeholder, if it
\* shares any; of several fields of the largest score the first in the
\* dictionary's order; no field when every score is zero.
C20_TokenOverlapSelection ==
    \A p \in template_placeholders :
        IsFirstOfTop(TokenOverlapBest(TokenSet(p), extracted_data, Len(extracted_data)),
                     TokenSet(p), extracted_data,
                     TopFields(TokenSet(p), extracted_data))

\* DATE_RECEIVED with a field of score zero first and two fields of score one
\* after it: the value of the first of the two is returned
C20_Witness ==
    /\ pc = "mapped"
    /\ DATE_RECEIVED \in template_placeholders
    /\ extracted_data = <<[key |-> type_of_loss, value |-> v_hail],
                          [key |-> loss_date, value |-> v_date4],
                          [key |-> date_loss, value |-> v_date2]>>
    /\ TokenOverlapBest(TokenSet(DATE_RECEIVED), extracted_data, 3)
       = [best_key |-> loss_date, best_score |-> 1]
    /\ Found(DATE_RECEIVED) = v_date4

-----------------------------------------------------------------------------
(* Properties of the address fallback and of the validator *)

v_ny == <<"N", "Y">>
v_12180 == <<"1", "2", "1", "8", "0">>

\* the segments of a full address: newlines count as commas, a segment is the
\* text between two commas without the whitespace around it, and empty
\* segments are left out
Segments(a) == StripAll(Split(ReplaceChar(a, "\n", <<",">>), ","))

\* the segment is a two-letter state, a space and a zip, and nothing else
IsStateSpaceZip(seg) ==
    /\ Len(seg) > 3
    /\ seg[1] \in Letters
    /\ seg[2] \in Letters
    /\ seg[3] = " "
    /\ ZipShape(SubSeq(seg, 4, Len(seg)))

\* the segments strictly between the first and the last, joined; null when
\* there are none
MiddleJoined(S) ==
    IF Len(S) > 2 THEN Join(<<",", " ">>, SubSeq(S, 2, Len(S) - 1)) ELSE None

\* the resolver's values for the four parts are these
PartsAre(street, city, state, zipc) ==
    /\ INSURED_H_STREET \in template_placeholders => Found(INSURED_H_STREET) = street
    /\ INSURED_H_CITY \in template_placeholders => Found(INSURED_H_CITY) = city
    /\ INSURED_H_STATE \in template_placeholders => Found(INSURED_H_STATE) = state
    /\ INSURED_H_ZIP \in template_placeholders => Found(INSURED_H_ZIP) = zipc

\* the parts of an address of two segments or more, as the claim words them
ParsedAsWorded(S, last) ==
    IF IsStateSpaceZip(last)
    THEN PartsAre(S[1], MiddleJoined(S), SubSeq(last, 1, 2), SubSeq(last, 4, Len(last)))
    ELSE PartsAre(S[1], last, None, None)

\* C21: the fallback splits the full address on commas, newlines counting as
\* commas; the first segment is the street; a last segment that is a
\* two-letter state, a space and a zip gives state and zip, with the segments
\* between first and last joined as the city; any other last segment is the
\* city, and state and zip are absent.
C21_AddressParsing ==
    (pc = "mapped" /\ Truthy(FullAddr(extracted_data))
     /\ Len(Segments(FullAddr(extracted_data))) >= 2) =>
        ParsedAsWorded(Segments(FullAddr(extracted_data)),
                       Segments(FullAddr(extracted_data))[Len(Segments(FullAddr(extracted_data)))])

\* the ways to read the end of a segment as two letters, whitespace or none,
\* and a zip
StateZipEndings(last) ==
    {e \in [state : {SubSeq(last, k, k + 1) : k \in 1..(Len(last) - 1)},
            zipc : {SubSeq(last, j, Len(last)) : j \in 3..Len(last)}] :
        \E k \in 1..(Len(last) - 1) : \E j \in (k + 2)..Len(last) :
            /\ e.state = SubSeq(last, k, k + 1)
            /\ e.zipc = SubSeq(last, j, Len(last))
            /\ last[k] \in Letters
            /\ last[k + 1] \in Letters
            /\ \A w \in (k + 2)..(j - 1) : last[w] \in Whitespace
            /\ ZipShape(e.zipc)}

\* the parts of an address by its segments: a single segment is the street
\* alone; the last of several gives state and zip when it ends with them
ParsedByEnding(S, endings) ==
    IF Len(S) = 1 THEN PartsAre(S[1], None, None, None)
    ELSE IF endings # {}
         THEN \E e \in endings : PartsAre(S[1], MiddleJoined(S), e.state, e.zipc)
         ELSE PartsAre(S[1], S[Len(S)], None, None)

\* C21 as amended: the first segment is the street; with two segments or
\* more, a last segment that ends with two letters, whitespace or none, and a
\* zip gives state and zip, with the segments between first and last joined
\* as the city (absent when there are none); any other last segment is the
\* city, state and zip absent; a single segment leaves city, state and zip
\* absent.
C21_AddressParsingAmended ==
    (pc = "mapped" /\ Truthy(FullAddr(extracted_data))
     /\ Segments(FullAddr(extracted_data)) # <<>>) =>
        ParsedByEnding(Segments(FullAddr(extracted_data)),
            StateZipEndings(
                Segments(FullAddr(extracted_data))[Len(Segments(FullAddr(extracted_data)))]))

\* the last segment holds the city before the state and the zip: state and
\* zip are taken from its end and the city is absent
C21_Witness ==
    /\ pc = "mapped"
    /\ extracted_data = <<[key |-> risk_address, value |-> v_troy]>>
    /\ template_placeholders = {INSURED_H_CITY, INSURED_H_STATE, INSURED_H_ZIP}
    /\ Found(INSURED_H_CITY) = None
    /\ Found(INSURED_H_STATE) = v_ny
    /\ Found(INSURED_H_ZIP) = v_12180

\* the values of the dictionary, the candidates the resolver has to judge
Candidates == {extracted_data[i].value : i \in 1..Len(extracted_data)} \ {None}

\* groups of digits separated by / or -
DateLike(cand) ==
    \E i \in 2..(Len(cand) - 1) :
        cand[i - 1] \in Digits /\ cand[i] \in {"/", "-"} /\ cand[i + 1] \in Digits

\* C22: for a placeholder whose lowercased name contains "date" the validator
\* accepts a candidate only if it holds a date-like pattern, groups of digits
\* separated by / or -.
C22_DateValidation ==
    pc = "mapped" =>
        \A p \in template_placeholders : \A cand \in Candidates :
            (Contains(w_date, lower(p)) /\ _validate_candidate_for_placeholder(p, cand))
            => DateLike(cand)

\* the name says an insured or a name
NameLike(lower_ph) == Contains(w_insured, lower_ph) \/ Contains(w_name, lower_ph)

\* C23: for a placeholder whose lowercased name contains "insured" or "name"
\* the validator accepts a candidate only if it holds a letter and is not all
\* digits.
C23_NameValidation ==
    pc = "mapped" =>
        \A p \in template_placeholders : \A cand \in Candidates :
            (NameLike(lower(p)) /\ _validate_candidate_for_placeholder(p, cand))
            => (HasLetter(cand) /\ ~isdigit(cand))

\* the name holds none of the words whose rules come before the name rule and
\* admit a candidate without a letter
NoEarlierRule(lower_ph) ==
    \A w \in {w_zip, w_street, w_st, w_date, w_policy, w_claim} : ~Contains(w, lower_ph)

\* C23 as amended: for a placeholder whose lowercased name contains "insured"
\* or "name" and none of zip, street, st, date, policy and claim, the
\* validator accepts a candidate only if it holds a letter and is not all
\* digits.
C23_NameValidationAmended ==
    pc = "mapped" =>
        \A p \in template_placeholders : \A cand \in Candidates :
            (/\ NameLike(lower(p))
             /\ NoEarlierRule(lower(p))
             /\ _validate_candidate_for_placeholder(p, cand))
            => (HasLetter(cand) /\ ~isdigit(cand))

\* INSURED_NAME has been resolved to a name while a zip and a date were among
\* the candidates and were refused for it
C23_Witness ==
    /\ pc = "mapped"
    /\ INSURED_NAME \in template_placeholders
    /\ {v_john, v_62704, v_date2} \subseteq Candidates
    /\ ~_validate_candidate_for_placeholder(INSURED_NAME, v_62704)
    /\ ~_validate_candidate_for_placeholder(INSURED_NAME, v_date2)
    /\ Found(INSURED_NAME) = v_john

\* st, ave, road, rd, lane, ln, drive, dr
SuffixTokens == {<<"s", "t">>, <<"a", "v", "e">>, <<"r", "o", "a", "d">>, <<"r", "d">>,
                 <<"l", "a", "n", "e">>, <<"l", "n">>, <<"d", "r", "i", "v", "e">>,
                 <<"d", "r">>}

\* the candidate holds a digit or a street-suffix token, in either case
DigitOrSuffix(cand) == HasDigit(cand) \/ \E w \in SuffixTokens : Contains(w, lower(cand))

\* the name says a street and no zip, city or state
StreetLike(lower_ph) ==
    /\ Contains(w_street, lower_ph) \/ Contains(w_st, lower_ph)
    /\ \A w \in {w_zip, w_city, w_state} : ~Contains(w, lower_ph)

\* C24: for a placeholder whose lowercased name contains "street" or "st" and
\* none of zip, city and state, the validator accepts a candidate exactly
\* when it holds a digit or one of the tokens st, ave, road, rd, lane, ln,
\* drive, dr, in either case.
C24_StreetValidation ==
    pc = "mapped" =>
        \A p \in template_placeholders : \A cand \in Candidates :
            StreetLike(lower(p)) =>
                (_validate_candidate_for_placeholder(p, cand) <=> DigitOrSuffix(cand))

-----------------------------------------------------------------------------
(* Properties of the fill, of the mapping and of the resolver's sources *)

\* the keys of a mapping passed to fill_template
KeysOf(items) == {items[i].key : i \in DOMAIN items}

\* C27: when the mapping's keys are exactly the placeholders extracted from
\* the document, the filled document holds no token of a mapped placeholder:
\* extraction over it finds none of the mapping's keys.
C27_CompleteSubstitution ==
    (filled_doc # <<>> /\ KeysOf(FillItems) = _extract_all_placeholders(document)) =>
        _extract_all_placeholders(FilledDoc) \cap KeysOf(FillItems) = {}

\* a report and a returned mapping agree: the unmapped list holds the
\* placeholders of an empty value, and a placeholder recorded in mapping_used
\* has the string form of the recorded value, which is not empty
Agree(r, mapping) ==
    /\ \A p \in DOMAIN mapping : p \in r.unmapped <=> mapping[p] = <<>>
    /\ \A p \in DOMAIN r.mapping_used :
          mapping[p] # <<>> /\ mapping[p] = str(r.mapping_used[p])

\* C28: a report taken after map_data agrees with the mapping returned: a
\* placeholder is in the unmapped list if and only if its value in the
\* mapping is the empty string, and every placeholder recorded as mapped has
\* a non-empty value, the string form of the value in mapping_used.
C28_MappingAndReportAgree ==
    [][(GetMappingReport /\ pc = "mapped") => Agree(report'[1], Returned)]_vars

\* a report taken after map_data lists an unresolved placeholder and records
\* a resolved one
C28_Witness ==
    /\ pc = "mapped"
    /\ report # <<>>
    /\ report[1].unmapped # {}
    /\ DOMAIN report[1].mapping_used # {}
    /\ Agree(report[1], Returned)

\* the non-null values of the dictionary's fields
FieldValues(d) == {d[i].value : i \in 1..Len(d)} \ {None}

\* the non-null values of the full-address fields, address and risk_address
FullAddresses(d) ==
    {d[i].value : i \in {k \in 1..Len(d) : d[k].key \in {address, risk_address}}} \ {None}

\* the parts of an address by its segments S: a segment, consecutive segments
\* joined, and two letters or a zip within a segment
PartsOfSegments(S) ==
    {Join(<<",", " ">>, SubSeq(S, i, j)) : i \in 1..Len(S), j \in 1..Len(S)}
    \cup UNION {{SubSeq(S[n], k, k + 1) : k \in 1..(Len(S[n]) - 1)} : n \in 1..Len(S)}
    \cup UNION {{z \in {SubSeq(S[n], k, Len(S[n])) : k \in 1..Len(S[n])} : ZipShape(z)}
                   : n \in 1..Len(S)}

\* what the resolver may return for dictionary d
Sources(d) == FieldValues(d) \cup UNION {PartsOfSegments(Segments(a)) : a \in FullAddresses(d)}

\* C29: every non-null value the resolver returns is the value of a field of
\* the dictionary or a part (street segment, city segments, state or zip) of
\* its full-address field; for a dictionary that is empty or holds only null
\* values the resolver returns null for every placeholder.
C29_Provenance ==
    pc = "mapped" =>
        /\ \A p \in DOMAIN mapping_used : mapping_used[p] \in Sources(extracted_data)
        /\ FieldValues(extracted_data) = {} => mapping_used = EmptyDict

\* the resolver has returned a field's value for one placeholder and a part
\* of the full address, which is no field's value, for another
C29_Witness ==
    /\ pc = "mapped"
    /\ \E p \in DOMAIN mapping_used : mapping_used[p] \in FieldValues(extracted_data)
    /\ INSURED_H_CITY \in DOMAIN mapping_used
    /\ mapping_used[INSURED_H_CITY] = v_city
    /\ v_city \notin FieldValues(extracted_data)

\* for candidates c of tiers 1 to 3 and the top-scoring fields top of
\* dictionary d: tiers 2 and 3 give the first matching field whose value
\* passes validation, and when none of tiers 1 to 3 has a candidate and the
\* first top-scoring field's value fails validation, the result is that of
\* the address fallback, null without one
OneFieldOnly(p, d, c, top, result) ==
    /\ (c[1] = None /\ c[2] # None) => result = c[2]
    /\ (c[1] = None /\ c[2] = None /\ c[3] # None) => result = c[3]
    /\ (/\ c[1] = None /\ c[2] = None /\ c[3] = None
        /\ top # {}
        /\ ~_validate_candidate_for_placeholder(p, d[FirstOf(top)].value))
       => result = OrElse(AddressFallback(p, d), None)

\* C30: the exact and substring tiers skip a field whose value fails
\* validation and go on to the next matching field; the token-overlap tier
\* validates the single best-scoring field only: when its value fails, no
\* tied or lower-scoring field is returned, and resolution goes on to the
\* address fallback or returns null.
C30_OverlapTriesOneField ==
    pc = "mapped" =>
        \A p \in template_placeholders :
            OneFieldOnly(p, extracted_data, TierCandidates(p, extracted_data),
                         TopFields(TokenSet(p), extracted_data), Found(p))

\* DATE_LOSS with loss_date, of two shared tokens and no date as its value,
\* before type_of_loss, of one shared token and a date: nothing is returned
C30_Witness ==
    /\ pc = "mapped"
    /\ DATE_LOSS \in template_placeholders
    /\ extracted_data = <<[key |-> loss_date, value |-> v_hail],
                          [key |-> type_of_loss, value |-> v_date4]>>
    /\ TokenOverlapBest(TokenSet(DATE_LOSS), extracted_data, 2)
       = [best_key |-> loss_date, best_score |-> 2]
    /\ _validate_candidate_for_placeholder(DATE_LOSS, v_date4)
    /\ Found(DATE_LOSS) = None

\* the name between quotes of either kind, as a key is written in an answer
Quoted(p, quote) == <<quote>> \o p \o <<quote>>

\* the answer has no key p: the call failed, or the text holds the name
\* between quotes nowhere
MissingIn(response, p) ==
    \/ response = Raised
    \/ ~Contains(Quoted(p, "\""), response) /\ ~Contains(Quoted(p, "'"), response)

\* the answer gives null for the key p
NullIn(response, p) ==
    /\ response # Raised
    /\ Contains(Quoted(p, "\"") \o <<":", "n", "u", "l", "l">>, response)

\* a string, and none of the values that stand for None or an exception
IsString(v) == v \in Seq(STRING) /\ v \notin {None, Raised, NoReturn}

\* C25: generate_placeholder_mapping never raises: whatever the placeholders
\* and the answer of the model (a JSON object, JSON inside other text, JSON
\* that is no object, text that is no JSON, a failing call), the result is a
\* dictionary whose keys are exactly the placeholders given and whose values
\* are strings, the empty string for a placeholder missing or null in the
\* answer.
C25_TotalMapping ==
    llm_mapping # <<>> =>
        /\ DOMAIN llm_mapping[1] = placeholders
        /\ \A p \in placeholders :
              /\ IsString(llm_mapping[1][p])
              /\ (MissingIn(llm_response[1], p) \/ NullIn(llm_response[1], p))
                 => llm_mapping[1][p] = <<>>

\* the answer {"A":"v","B_1":null} for the placeholders A and B_1: the
\* value of A, and the empty string for B_1
C25_Witness ==
    /\ llm_response = <<r_object>>
    /\ placeholders = {<<"A">>, <<"B", "_", "1">>}
    /\ llm_mapping = <<[p \in placeholders |-> IF p = <<"A">> THEN f_v ELSE <<>>]>>

\* the final mapping of a Generate step has a placeholder without a value
EmptyFinal ==
    /\ llm_mapping' # <<>>
    /\ \E p \in placeholders :
          FinalReplacements(llm_mapping'[1], replacements'[1])[p] = <<>>

\* the keys of the pending mapping, in sorted order
PendingKeys == sorted(DOMAIN pending_replacements[1])

====
